---------------------------- MODULE Spec2Model ----------------------------
(***************************************************************************)
(* Puerro: observable state containers (Observable, ObservableObject) and  *)
(* the virtual-DOM reconciliation routine (vNode / render / diff /         *)
(* changed).                                                               *)
(*                                                                         *)
(* JavaScript values are modelled as follows.                              *)
(*   - primitive values held by observables are strings; the JavaScript    *)
(*     value undefined is the distinguished value Undefined;               *)
(*   - a callback is identified by a natural number (its function object); *)
(*   - an object snapshot { k1: v1, k2: v2 } is the sequence of its        *)
(*     entries <<[k |-> k1, v |-> v1], [k |-> k2, v |-> v2]>> in insertion *)
(*     order, the order in which Object.keys enumerates them.              *)
(* A running Array.prototype.forEach is a frame on a call stack; one step  *)
(* of the model is one callback invocation (or one loop bookkeeping step). *)
(***************************************************************************)
EXTENDS Integers, Sequences, FiniteSets, TLC

VARIABLES
  target,      \* which container the program constructed
  \* ---- Observable (src/unnamed/part_005:9-24) ----
  item,        \* the closure variable `item`
  listeners,   \* the closure array `listeners` (callback ids, registration order)
  stack,       \* running listeners.forEach loops, innermost last
  calls,       \* callback invocations of the current outermost call, in order
  op,          \* the current (or last) outermost call and the state it started in
  reactions,   \* what the body of each callback does when it is invoked
  delivered,   \* per listener, the newValue its callback was last invoked with
  \* ---- ObservableObject (src/unnamed/part_005:26-58, bundle variant
  \*      src/test/dist/src.tests.bundle.js:144-180) ----
  variant,         \* which variant of ObservableObject.replace is loaded
  object,          \* the closure variable `object` (current snapshot)
  objListeners,    \* the closure array `listeners`
  subscribers,     \* the closure object `subscribers`: key -> callbacks
  objStack,        \* running notify calls, innermost last
  objCalls,        \* callback invocations of the current outermost call
  objOp,           \* the current (or last) outermost call
  \* ---- ObservableList (src/unnamed/part_005:64-96) ----
  list,              \* the backing array `list`
  addListeners,      \* the closure array `addListeners`
  removeListeners,   \* the closure array `removeListeners`
  replaceListeners,  \* the closure array `replaceListeners`
  listStack,         \* running forEach loops of add / remove / replace
  listCalls,         \* listener invocations of the current outermost call
  listOp,            \* the current (or last) outermost call
  listPrev,          \* the outermost call before it, with the calls it made
  \* ---- diff (src/unnamed/part_003:111-129) on a mounted tree ----
  oldNode,         \* the VNode the live tree was rendered from
  newNode,         \* the VNode the live tree is to be updated to
  mounted,         \* the live tree under $root before diff runs
  run,             \* the live tree, the DOM calls made and the outcome of diff
  \* ---- changed, h, render, toVNode applied to arguments ----
  call,            \* the arguments of the call and, once made, its result
  \* ---- mount (src/unnamed/part_002:161-187), with and without diffing ----
  instances,       \* useDiffing -> the closure of that mount and its $root
  update,          \* the setState calls made so far and the last argument
  \* ---- Controller (src/src/mvc/controller.js:9-49) ----
  controller,      \* the fields of the Controller and the live tree of its $root
  \* ---- PuerroElement (src/examples/web-components/dist/script.bundle.js:132-181) ----
  puerroElement,   \* the fields of the custom element, its child nodes, its last call
  \* ---- Controllers over the module-level store (src/src/mvc/controller.js:7-48) ----
  mvc              \* the store, the Controllers and their states, the running notifications

obsVars == <<item, listeners, stack, calls, op>>

objVars == <<variant, object, objListeners, subscribers, objStack, objCalls, objOp>>

listVars == <<list, addListeners, removeListeners, replaceListeners, listStack,
              listCalls, listOp, listPrev>>

vdomVars == <<oldNode, newNode, mounted, run>>

mountVars == <<instances, update>>

vars == <<target, obsVars, reactions, delivered, objVars, listVars, vdomVars, call, mountVars, controller, puerroElement, mvc>>

notObservable == <<target, reactions, delivered, objVars, listVars, vdomVars, call, mountVars, controller, puerroElement, mvc>>

notObservableObject == <<target, obsVars, reactions, delivered, listVars, vdomVars, call, mountVars, controller, puerroElement, mvc>>

notObservableList == <<target, obsVars, reactions, delivered, objVars, vdomVars, call, mountVars, controller, puerroElement, mvc>>

notVdom == <<target, obsVars, reactions, delivered, objVars, listVars, call, mountVars, controller, puerroElement, mvc>>

notReentrant == <<target, objVars, listVars, vdomVars, call, mountVars, controller, puerroElement, mvc>>

notCall == <<obsVars, reactions, delivered, objVars, listVars, vdomVars, mountVars, controller, puerroElement, mvc>>

notMount == <<target, obsVars, reactions, delivered, objVars, listVars, vdomVars, call,
              controller, puerroElement, mvc>>

notController == <<target, obsVars, reactions, delivered, listVars, vdomVars, call, mountVars,
                   puerroElement, mvc>>

notElement == <<target, obsVars, reactions, delivered, objVars, listVars, vdomVars, call,
                mountVars, controller, mvc>>

notStore == <<target, obsVars, reactions, delivered, objVars, listVars, vdomVars, call,
              mountVars, controller, puerroElement>>

(***************************************************************************)
(* Bounds                                                                  *)
(***************************************************************************)
MaxListeners == 2

MaxControllers == 2

MaxClients == 1

MaxSubscribers == 1

Undefined == "undefined"

Items == {"", "Puerro", "Huerto"}

Callbacks == {1, 2}

(***************************************************************************)
(* Observable                                                              *)
(***************************************************************************)
\* a callback that only records its arguments
Passive == [reacts |-> FALSE]

ObservableInit ==
  /\ item \in Items
  /\ listeners = <<>>
  /\ stack = <<>>
  /\ calls = <<>>
  /\ op = [name |-> "Observable", arg |-> item, item |-> item, listeners |-> <<>>]

ObservableIdle ==
  /\ item = ""
  /\ listeners = <<>>
  /\ stack = <<>>
  /\ calls = <<>>
  /\ op = [name |-> "none", arg |-> "", item |-> "", listeners |-> <<>>]
  /\ reactions = [callback \in Callbacks |-> Passive]
  /\ delivered = <<>>

\* set without its guard `if (item === newItem) return;`
Observable_set_unguarded(newItem) ==
  /\ target = "Observable"
  /\ stack = <<>>
  /\ op' = [name |-> "set", arg |-> newItem, item |-> item, listeners |-> listeners]
  /\ calls' = <<>>
  /\ item' = newItem
  /\ stack' = <<[newItem |-> newItem, oldItem |-> item, i |-> 1,
                 len |-> Len(listeners)]>>
  /\ UNCHANGED listeners

\* set: newItem => { if (item === newItem) return; const oldItem = item;
\*                   item = newItem; listeners.forEach(...) }
\* The forEach is entered as a frame; its range is fixed at entry.
Observable_set(newItem) ==
  /\ target = "Observable"
  /\ stack = <<>>
  /\ op' = [name |-> "set", arg |-> newItem, item |-> item, listeners |-> listeners]
  /\ calls' = <<>>
  /\ IF item = newItem
       THEN UNCHANGED <<item, stack>>
       ELSE /\ item' = newItem
            /\ stack' = <<[newItem |-> newItem, oldItem |-> item, i |-> 1,
                           len |-> Len(listeners)]>>
  /\ UNCHANGED listeners

\* forEach visiting the listeners last-registered first
Observable_notify_reversed(f) ==
  /\ f.i <= f.len
  /\ calls' = Append(calls, [who |-> listeners[f.len + 1 - f.i],
                             newValue |-> f.newItem,
                             oldValue |-> f.oldItem, seen |-> item])
  /\ stack' = [stack EXCEPT ![Len(stack)].i = f.i + 1]
  /\ UNCHANGED <<item, listeners, op>>

\* one iteration of listeners.forEach(notify => notify(newItem, oldItem))
Observable_notify(f) ==
  /\ f.i <= f.len
  /\ calls' = Append(calls, [who |-> listeners[f.i], newValue |-> f.newItem,
                             oldValue |-> f.oldItem, seen |-> item])
  /\ stack' = [stack EXCEPT ![Len(stack)].i = f.i + 1]
  /\ UNCHANGED <<item, listeners, op>>

\* the forEach is exhausted: set returns
Observable_return(f) ==
  /\ f.i > f.len
  /\ stack' = SubSeq(stack, 1, Len(stack) - 1)
  /\ UNCHANGED <<item, listeners, calls, op>>

\* onChange that only registers (as EventObservable.onChange does)
Observable_onChange_silent(callback) ==
  /\ target = "Observable"
  /\ stack = <<>>
  /\ Len(listeners) < MaxListeners
  /\ op' = [name |-> "onChange", arg |-> callback, item |-> item,
            listeners |-> listeners]
  /\ listeners' = Append(listeners, callback)
  /\ calls' = <<>>
  /\ UNCHANGED <<item, stack>>

\* onChange: callback => { listeners.push(callback); callback(item, item); }
Observable_onChange(callback) ==
  /\ target = "Observable"
  /\ stack = <<>>
  /\ Len(listeners) < MaxListeners
  /\ op' = [name |-> "onChange", arg |-> callback, item |-> item,
            listeners |-> listeners]
  /\ listeners' = Append(listeners, callback)
  /\ calls' = <<[who |-> callback, newValue |-> item, oldValue |-> item,
                 seen |-> item]>>
  /\ UNCHANGED <<item, stack>>

ObservableSet ==
  /\ \E newItem \in Items : Observable_set(newItem)
  /\ UNCHANGED notObservable

ObservableNotify ==
  /\ stack # <<>>
  /\ Observable_notify(stack[Len(stack)])
  /\ UNCHANGED notObservable

ObservableReturn ==
  /\ stack # <<>>
  /\ Observable_return(stack[Len(stack)])
  /\ UNCHANGED notObservable

ObservableOnChange ==
  /\ \E callback \in Callbacks : Observable_onChange(callback)
  /\ UNCHANGED notObservable

ObservableNext ==
  ObservableSet \/ ObservableNotify \/ ObservableReturn \/ ObservableOnChange

(***************************************************************************)
(* Observable with callbacks that call set while they are being invoked:   *)
(* the body of a callback is `v => { if (v === on) observable.set(z) }`.   *)
(* The call set(z) runs to its end, notifications included, before the     *)
(* callback returns to the forEach that invoked it. Only programs that     *)
(* come to an end are considered: no two callbacks set each other's        *)
(* trigger.                                                                *)
(***************************************************************************)
Reactions ==
  {Passive} \cup { [reacts |-> TRUE, on |-> yz[1], set |-> yz[2]] :
                     yz \in { pair \in Items \X Items : pair[1] # pair[2] } }

Terminating(bodies) ==
  \A c1, c2 \in Callbacks :
    (bodies[c1].reacts /\ bodies[c2].reacts)
      => ~(bodies[c1].set = bodies[c2].on /\ bodies[c2].set = bodies[c1].on)

NoSet == "no set"

\* callback(newValue, oldValue) is invoked with the forEach loops `rest`
\* running and the listeners `registered`; `log` holds the invocations made
\* before. If the body calls set(z) and z differs from the current item, set
\* swaps the item and enters its own forEach.
Observable_invoke(log, kind, registered, who, newValue, oldValue, pos, rest) ==
  LET calling == reactions[who].reacts /\ reactions[who].on = newValue IN
    /\ calls' = Append(log, [kind |-> kind, who |-> who, pos |-> pos,
                             newValue |-> newValue, oldValue |-> oldValue,
                             seen |-> item, depth |-> Len(rest),
                             sets |-> IF calling THEN reactions[who].set
                                      ELSE NoSet])
    /\ delivered' = [l \in 1..Len(registered) |->
                       IF l = pos THEN newValue ELSE delivered[l]]
    /\ IF calling /\ item # reactions[who].set
         THEN /\ item' = reactions[who].set
              /\ stack' = Append(rest, [newItem |-> reactions[who].set,
                                        oldItem |-> item, i |-> 1,
                                        len |-> Len(registered)])
         ELSE /\ item' = item
              /\ stack' = rest

\* the loop handing the current item to the listener instead of newItem
Observable_listener_current(f) ==
  /\ f.i <= f.len
  /\ Observable_invoke(calls, "set", listeners, listeners[f.i], item, f.oldItem, f.i,
                       [stack EXCEPT ![Len(stack)].i = f.i + 1])
  /\ UNCHANGED <<listeners, op>>

\* the loop visiting the listeners last-registered first
Observable_listener_reversed(f) ==
  /\ f.i <= f.len
  /\ Observable_invoke(calls, "set", listeners, listeners[f.len + 1 - f.i],
                       f.newItem, f.oldItem, f.len + 1 - f.i,
                       [stack EXCEPT ![Len(stack)].i = f.i + 1])
  /\ UNCHANGED <<listeners, op>>

\* one iteration of listeners.forEach(notify => notify(newItem, oldItem)),
\* the body of the listener included
Observable_listener(f) ==
  /\ f.i <= f.len
  /\ Observable_invoke(calls, "set", listeners, listeners[f.i], f.newItem,
                       f.oldItem, f.i,
                       [stack EXCEPT ![Len(stack)].i = f.i + 1])
  /\ UNCHANGED <<listeners, op>>

\* onChange: callback => { listeners.push(callback); callback(item, item); }
Observable_register(callback) ==
  /\ target = "Observable"
  /\ stack = <<>>
  /\ Len(listeners) < MaxListeners
  /\ op' = [name |-> "onChange", arg |-> callback, item |-> item,
            listeners |-> listeners]
  /\ listeners' = Append(listeners, callback)
  /\ Observable_invoke(<<>>, "onChange", Append(listeners, callback), callback,
                       item, item, Len(listeners) + 1, <<>>)

ObservableListener ==
  /\ stack # <<>>
  /\ Observable_listener(stack[Len(stack)])
  /\ UNCHANGED <<reactions, notReentrant>>

ObservableRegister ==
  /\ \E callback \in Callbacks : Observable_register(callback)
  /\ UNCHANGED <<reactions, notReentrant>>

ReentrantInit ==
  /\ target = "Observable"
  /\ ObservableInit
  /\ reactions \in { bodies \in [Callbacks -> Reactions] : Terminating(bodies) }
  /\ delivered = <<>>

(***************************************************************************)
(* Object snapshots                                                        *)
(***************************************************************************)
Keys == {"value", "text"}

ObjVals == {"1", "2", Undefined}

HasKey(o, key) == \E i \in 1..Len(o) : o[i].k = key

\* o[key]: a missing property reads as undefined
Lookup(o, key) ==
  IF HasKey(o, key)
    THEN o[CHOOSE i \in 1..Len(o) : o[i].k = key].v
    ELSE Undefined

\* o[key] = v on a copy: an existing key keeps its position
Put(o, key, v) ==
  IF HasKey(o, key)
    THEN [i \in 1..Len(o) |-> IF o[i].k = key THEN [k |-> key, v |-> v] ELSE o[i]]
    ELSE Append(o, [k |-> key, v |-> v])

\* { ...a, ...b }
RECURSIVE Spread(_, _)
Spread(a, b) ==
  IF b = <<>> THEN a
  ELSE Spread(Put(a, Head(b).k, Head(b).v), Tail(b))

\* Object.assign({}, o) followed by
\* Object.keys(emptyObject).forEach(key => emptyObject[key] = undefined)
EmptyObject(o) == [i \in 1..Len(o) |-> [k |-> o[i].k, v |-> Undefined]]

\* all objects over Keys, any insertion order
Objects ==
  { o \in UNION { [1..n -> [k : Keys, v : ObjVals]] : n \in 0..Cardinality(Keys) } :
      \A i, j \in 1..Len(o) : i # j => o[i].k # o[j].k }

(***************************************************************************)
(* ObservableObject                                                        *)
(***************************************************************************)
Variants == {"part_005", "bundle"}

ObservableObjectInit ==
  /\ variant \in Variants
  /\ object \in {<<>>, <<[k |-> "value", v |-> "1"]>>}
  /\ objListeners = <<>>
  /\ subscribers = [key \in Keys |-> <<>>]
  /\ objStack = <<>>
  /\ objCalls = <<>>
  /\ objOp = [name |-> "ObservableObject", key |-> "", arg |-> object,
              object |-> object]

ObservableObjectIdle ==
  /\ variant = "part_005"
  /\ object = <<>>
  /\ objListeners = <<>>
  /\ subscribers = [key \in Keys |-> <<>>]
  /\ objStack = <<>>
  /\ objCalls = <<>>
  /\ objOp = [name |-> "none", key |-> "", arg |-> <<>>, object |-> <<>>]

\* notify = newObject => { if (object == newObject) return;
\*                         const oldObject = object; object = newObject; ... }
\* `same` says whether newObject is the very object currently held: == on two
\* objects compares identity, not content.
ObservableObject_notify(newObject, same) ==
  IF same
    THEN UNCHANGED <<object, objStack>>
    ELSE /\ object' = newObject
         /\ objStack' = Append(objStack, [newObject |-> newObject,
                                          oldObject |-> object,
                                          k |-> 1, s |-> 1, l |-> 1])

\* set: newObject => notify({ ...object, ...newObject })
ObservableObject_set(newObject) ==
  ObservableObject_notify(Spread(object, newObject), FALSE)

\* push: (key, value) => notify({ ...object, ...{ [key]: value } })
ObservableObject_push(key, value) ==
  ObservableObject_notify(Spread(object, <<[k |-> key, v |-> value]>>), FALSE)

\* remove that deletes the property instead of setting it to undefined
ObservableObject_remove_delete(key) ==
  ObservableObject_notify(SelectSeq(object, LAMBDA e : e.k # key), FALSE)

\* remove: key => notify({ ...object, ...{ [key]: undefined } })
ObservableObject_remove(key) ==
  ObservableObject_notify(Spread(object, <<[k |-> key, v |-> Undefined]>>), FALSE)

\* part_005: replace: newObject => notify(newObject)
ObservableObject_replace(newObject, same) ==
  ObservableObject_notify(newObject, same)

\* bundle: replace: newObject => { const emptyObject = Object.assign({}, object);
\*   Object.keys(emptyObject).forEach(key => emptyObject[key] = undefined);
\*   notify({ ...emptyObject, ...newObject }); }
ObservableObject_replace_clearing(newObject) ==
  ObservableObject_notify(Spread(EmptyObject(object), newObject), FALSE)

ObjEntry(kind, who, key, f) ==
  [kind |-> kind, who |-> who, key |-> key,
   newValue |-> IF kind = "subscriber" THEN Lookup(f.newObject, key) ELSE Undefined,
   oldValue |-> IF kind = "subscriber" THEN Lookup(f.oldObject, key) ELSE Undefined,
   newObject |-> f.newObject, oldObject |-> f.oldObject, seen |-> object]

\* Object.keys(newObject).forEach(key => { ...; if (oldValue === newValue) return;
\*   (subscribers[key] || []).forEach(...) }): move on to the next key
ObservableObject_nextKey(f) ==
  /\ f.k <= Len(f.newObject)
  /\ LET key == f.newObject[f.k].k IN
       \/ Lookup(f.oldObject, key) = Lookup(f.newObject, key)
       \/ f.s > Len(subscribers[key])
  /\ objStack' = [objStack EXCEPT ![Len(objStack)].k = f.k + 1,
                                  ![Len(objStack)].s = 1]
  /\ UNCHANGED <<variant, object, objListeners, subscribers, objCalls, objOp>>

\* per-key loop that does not compare oldValue with newValue
ObservableObject_subscriber_always(f) ==
  /\ f.k <= Len(f.newObject)
  /\ LET key == f.newObject[f.k].k IN
       /\ f.s <= Len(subscribers[key])
       /\ objCalls' = Append(objCalls,
                             ObjEntry("subscriber", subscribers[key][f.s], key, f))
  /\ objStack' = [objStack EXCEPT ![Len(objStack)].s = f.s + 1]
  /\ UNCHANGED <<variant, object, objListeners, subscribers, objOp>>

\* subscriber(newValue, oldValue) for one subscriber of a changed key
ObservableObject_subscriber(f) ==
  /\ f.k <= Len(f.newObject)
  /\ LET key == f.newObject[f.k].k IN
       /\ Lookup(f.oldObject, key) # Lookup(f.newObject, key)
       /\ f.s <= Len(subscribers[key])
       /\ objCalls' = Append(objCalls,
                             ObjEntry("subscriber", subscribers[key][f.s], key, f))
  /\ objStack' = [objStack EXCEPT ![Len(objStack)].s = f.s + 1]
  /\ UNCHANGED <<variant, object, objListeners, subscribers, objOp>>

\* the whole-object listeners not waiting for the loop over the keys
ObservableObject_listener_early(f) ==
  /\ f.l <= Len(objListeners)
  /\ objCalls' = Append(objCalls, ObjEntry("listener", objListeners[f.l], "", f))
  /\ objStack' = [objStack EXCEPT ![Len(objStack)].l = f.l + 1]
  /\ UNCHANGED <<variant, object, objListeners, subscribers, objOp>>

\* listeners.forEach(listener => listener(newObject, oldObject)): one iteration
ObservableObject_listener(f) ==
  /\ f.k > Len(f.newObject)
  /\ f.l <= Len(objListeners)
  /\ objCalls' = Append(objCalls, ObjEntry("listener", objListeners[f.l], "", f))
  /\ objStack' = [objStack EXCEPT ![Len(objStack)].l = f.l + 1]
  /\ UNCHANGED <<variant, object, objListeners, subscribers, objOp>>

\* both loops are exhausted: notify returns
ObservableObject_return(f) ==
  /\ f.k > Len(f.newObject)
  /\ f.l > Len(objListeners)
  /\ objStack' = SubSeq(objStack, 1, Len(objStack) - 1)
  /\ UNCHANGED <<variant, object, objListeners, subscribers, objCalls, objOp>>

\* onChange: callback => { listeners.push(callback); callback(object, object); }
ObservableObject_onChange(callback) ==
  /\ objListeners' = Append(objListeners, callback)
  /\ objCalls' = <<ObjEntry("listener", callback, "",
                            [newObject |-> object, oldObject |-> object])>>

\* subscribe: (key, callback) => { subscribers[key] = subscribers[key] || [];
\*   subscribers[key].push(callback); callback(object[key], object[key]); }
ObservableObject_subscribe(key, callback) ==
  /\ subscribers' = [subscribers EXCEPT ![key] = Append(@, callback)]
  /\ objCalls' = <<ObjEntry("subscriber", callback, key,
                            [newObject |-> object, oldObject |-> object])>>

\* ---- the calls a client makes, and the steps of a running notify ----
ObjIdle == target = "ObservableObject" /\ objStack = <<>>

\* every registration passes a new closure, named by its place in the array
\* it is pushed to
NewCallback(registered) == Len(registered) + 1

ObjSet ==
  /\ ObjIdle
  /\ \E newObject \in Objects :
       /\ ObservableObject_set(newObject)
       /\ objOp' = [name |-> "set", key |-> "", arg |-> newObject, object |-> object]
  /\ objCalls' = <<>>
  /\ UNCHANGED <<notObservableObject, variant, objListeners, subscribers>>

ObjPush ==
  /\ ObjIdle
  /\ \E key \in Keys, value \in ObjVals :
       /\ ObservableObject_push(key, value)
       /\ objOp' = [name |-> "push", key |-> key,
                    arg |-> <<[k |-> key, v |-> value]>>, object |-> object]
  /\ objCalls' = <<>>
  /\ UNCHANGED <<notObservableObject, variant, objListeners, subscribers>>

ObjRemove ==
  /\ ObjIdle
  /\ \E key \in Keys :
       /\ ObservableObject_remove(key)
       /\ objOp' = [name |-> "remove", key |-> key, arg |-> <<>>, object |-> object]
  /\ objCalls' = <<>>
  /\ UNCHANGED <<notObservableObject, variant, objListeners, subscribers>>

ObjReplace ==
  /\ ObjIdle
  /\ variant = "part_005"
  /\ \E newObject \in Objects, same \in BOOLEAN :
       /\ same => newObject = object
       /\ ObservableObject_replace(newObject, same)
       /\ objOp' = [name |-> "replace", key |-> "", arg |-> newObject,
                    object |-> object]
  /\ objCalls' = <<>>
  /\ UNCHANGED <<notObservableObject, variant, objListeners, subscribers>>

ObjReplaceClearing ==
  /\ ObjIdle
  /\ variant = "bundle"
  /\ \E newObject \in Objects :
       /\ ObservableObject_replace_clearing(newObject)
       /\ objOp' = [name |-> "replace", key |-> "", arg |-> newObject,
                    object |-> object]
  /\ objCalls' = <<>>
  /\ UNCHANGED <<notObservableObject, variant, objListeners, subscribers>>

ObjOnChange ==
  /\ ObjIdle
  /\ Len(objListeners) < MaxListeners
  /\ ObservableObject_onChange(NewCallback(objListeners))
  /\ objOp' = [name |-> "onChange", key |-> "", arg |-> <<>>, object |-> object]
  /\ UNCHANGED <<notObservableObject, variant, object, subscribers, objStack>>

ObjSubscribe ==
  /\ ObjIdle
  /\ \E key \in Keys :
       /\ Len(subscribers[key]) < MaxSubscribers
       /\ ObservableObject_subscribe(key, NewCallback(subscribers[key]))
       /\ objOp' = [name |-> "subscribe", key |-> key, arg |-> <<>>,
                    object |-> object]
  /\ UNCHANGED <<notObservableObject, variant, object, objListeners, objStack>>

ObjNextKey ==
  /\ objStack # <<>>
  /\ ObservableObject_nextKey(objStack[Len(objStack)])
  /\ UNCHANGED notObservableObject

ObjSubscriber ==
  /\ objStack # <<>>
  /\ ObservableObject_subscriber(objStack[Len(objStack)])
  /\ UNCHANGED notObservableObject

ObjListener ==
  /\ objStack # <<>>
  /\ ObservableObject_listener(objStack[Len(objStack)])
  /\ UNCHANGED notObservableObject

ObjReturn ==
  /\ objStack # <<>>
  /\ ObservableObject_return(objStack[Len(objStack)])
  /\ UNCHANGED notObservableObject

ObservableObjectNext ==
  \/ ObjSet \/ ObjPush \/ ObjRemove \/ ObjReplace \/ ObjReplaceClearing
  \/ ObjOnChange \/ ObjSubscribe
  \/ ObjNextKey \/ ObjSubscriber \/ ObjListener \/ ObjReturn

(***************************************************************************)
(* ObservableList. The items of a list are numbers, its listeners are      *)
(* callbacks that record their argument(s) and the list they see.          *)
(***************************************************************************)
MaxLength == 3

ListItems == {1, 2}

\* the arrays ObservableList is handed: any contents, duplicates included
Lists == UNION { [1..n -> ListItems] : n \in 0..(MaxLength - 1) }

NoCall == [name |-> "none", args |-> <<>>, list |-> <<>>, calls |-> <<>>]

ObservableListInit ==
  /\ list \in Lists
  /\ addListeners = <<>>
  /\ removeListeners = <<>>
  /\ replaceListeners = <<>>
  /\ listStack = <<>>
  /\ listCalls = <<>>
  /\ listOp = [name |-> "ObservableList", args |-> <<>>, list |-> list]
  /\ listPrev = NoCall

ObservableListIdle ==
  /\ list = <<>>
  /\ addListeners = <<>>
  /\ removeListeners = <<>>
  /\ replaceListeners = <<>>
  /\ listStack = <<>>
  /\ listCalls = <<>>
  /\ listOp = [name |-> "none", args |-> <<>>, list |-> <<>>]
  /\ listPrev = NoCall

\* list.indexOf(item), counted from 0; -1 when item does not occur
indexOf(l, x) ==
  IF \E i \in 1..Len(l) : l[i] = x
    THEN (CHOOSE i \in 1..Len(l) : l[i] = x /\ \A j \in 1..(i - 1) : l[j] # x) - 1
    ELSE -1

\* list.splice(i, 1), i counted from 0
splice(l, i) == SubSeq(l, 1, i) \o SubSeq(l, i + 2, Len(l))

\* an outermost call starts: the call before it is kept with its calls
ObservableList_call(name, args) ==
  /\ target = "ObservableList"
  /\ listStack = <<>>
  /\ listPrev' = [name |-> listOp.name, args |-> listOp.args,
                  list |-> listOp.list, calls |-> listCalls]
  /\ listOp' = [name |-> name, args |-> args, list |-> list]
  /\ listCalls' = <<>>

\* someListeners.forEach(...): entered as a frame, its range fixed at entry
ObservableList_forEach(group, registered, args) ==
  listStack' = <<[group |-> group, args |-> args, i |-> 1,
                  len |-> Len(registered)]>>

\* onAdd: listener => addListeners.push(listener)
ObservableList_onAdd(listener) ==
  /\ ObservableList_call("onAdd", <<listener>>)
  /\ addListeners' = Append(addListeners, listener)
  /\ UNCHANGED <<list, removeListeners, replaceListeners, listStack>>

\* onRemove: listener => removeListeners.push(listener)
ObservableList_onRemove(listener) ==
  /\ ObservableList_call("onRemove", <<listener>>)
  /\ removeListeners' = Append(removeListeners, listener)
  /\ UNCHANGED <<list, addListeners, replaceListeners, listStack>>

\* onReplace: listener => replaceListeners.push(listener)
ObservableList_onReplace(listener) ==
  /\ ObservableList_call("onReplace", <<listener>>)
  /\ replaceListeners' = Append(replaceListeners, listener)
  /\ UNCHANGED <<list, addListeners, removeListeners, listStack>>

\* add: item => { list.push(item); addListeners.forEach(l => l(item)); }
ObservableList_add(x) ==
  /\ ObservableList_call("add", <<x>>)
  /\ list' = Append(list, x)
  /\ ObservableList_forEach("add", addListeners, <<x>>)
  /\ UNCHANGED <<addListeners, removeListeners, replaceListeners>>

\* remove that deletes every occurrence of item
ObservableList_remove_all(x) ==
  /\ ObservableList_call("remove", <<x>>)
  /\ list' = SelectSeq(list, LAMBDA y : y # x)
  /\ ObservableList_forEach("remove", removeListeners, <<x>>)
  /\ UNCHANGED <<addListeners, removeListeners, replaceListeners>>

\* remove that notifies only when it removed something
ObservableList_remove_quiet(x) ==
  /\ ObservableList_call("remove", <<x>>)
  /\ LET i == indexOf(list, x) IN
       IF i >= 0
         THEN /\ list' = splice(list, i)
              /\ ObservableList_forEach("remove", removeListeners, <<x>>)
         ELSE UNCHANGED <<list, listStack>>
  /\ UNCHANGED <<addListeners, removeListeners, replaceListeners>>

\* remove: item => { const i = list.indexOf(item);
\*   if (i >= 0) { list.splice(i, 1); }
\*   removeListeners.forEach(l => l(item)); }
ObservableList_remove(x) ==
  /\ ObservableList_call("remove", <<x>>)
  /\ LET i == indexOf(list, x) IN
       list' = IF i >= 0 THEN splice(list, i) ELSE list
  /\ ObservableList_forEach("remove", removeListeners, <<x>>)
  /\ UNCHANGED <<addListeners, removeListeners, replaceListeners>>

\* replace overwriting every position that holds the item
ObservableList_replace_every(x, newItem) ==
  /\ ObservableList_call("replace", <<x, newItem>>)
  /\ list' = [n \in 1..Len(list) |-> IF list[n] = x THEN newItem ELSE list[n]]
  /\ ObservableList_forEach("replace", replaceListeners, <<newItem, x>>)
  /\ UNCHANGED <<addListeners, removeListeners, replaceListeners>>

\* replace: (item, newItem) => { const i = list.indexOf(item);
\*   if (i >= 0) { list[i] = newItem; }
\*   replaceListeners.forEach(l => l(newItem, item)); }
ObservableList_replace(x, newItem) ==
  /\ ObservableList_call("replace", <<x, newItem>>)
  /\ LET i == indexOf(list, x) IN
       list' = IF i >= 0 THEN [list EXCEPT ![i + 1] = newItem] ELSE list
  /\ ObservableList_forEach("replace", replaceListeners, <<newItem, x>>)
  /\ UNCHANGED <<addListeners, removeListeners, replaceListeners>>

\* the array a running forEach iterates over
ListenersOf(group) ==
  CASE group = "add" -> addListeners
    [] group = "remove" -> removeListeners
    [] group = "replace" -> replaceListeners

\* forEach over the listeners of all three groups, whatever the operation
ObservableList_listener_any(f) ==
  LET all == addListeners \o removeListeners \o replaceListeners
      groups == [i \in 1..Len(addListeners) |-> "add"]
                  \o [i \in 1..Len(removeListeners) |-> "remove"]
                  \o [i \in 1..Len(replaceListeners) |-> "replace"]
  IN  /\ f.i <= Len(all)
      /\ listCalls' = Append(listCalls, [group |-> groups[f.i], who |-> all[f.i],
                                         args |-> f.args, seen |-> list])
      /\ listStack' = [listStack EXCEPT ![Len(listStack)].i = f.i + 1]
      /\ UNCHANGED <<list, addListeners, removeListeners, replaceListeners,
                     listOp, listPrev>>

\* one iteration of the forEach: listener(item) or listener(newItem, item)
ObservableList_listener(f) ==
  /\ f.i <= f.len
  /\ listCalls' = Append(listCalls, [group |-> f.group,
                                     who |-> ListenersOf(f.group)[f.i],
                                     args |-> f.args, seen |-> list])
  /\ listStack' = [listStack EXCEPT ![Len(listStack)].i = f.i + 1]
  /\ UNCHANGED <<list, addListeners, removeListeners, replaceListeners,
                 listOp, listPrev>>

\* the forEach is exhausted: the operation returns
ObservableList_return(f) ==
  /\ f.i > f.len
  /\ listStack' = SubSeq(listStack, 1, Len(listStack) - 1)
  /\ UNCHANGED <<list, addListeners, removeListeners, replaceListeners,
                 listCalls, listOp, listPrev>>

ListOnAdd ==
  /\ Len(addListeners) < MaxListeners
  /\ ObservableList_onAdd(NewCallback(addListeners))
  /\ UNCHANGED notObservableList

ListOnRemove ==
  /\ Len(removeListeners) < MaxListeners
  /\ ObservableList_onRemove(NewCallback(removeListeners))
  /\ UNCHANGED notObservableList

ListOnReplace ==
  /\ Len(replaceListeners) < MaxListeners
  /\ ObservableList_onReplace(NewCallback(replaceListeners))
  /\ UNCHANGED notObservableList

ListAdd ==
  /\ Len(list) < MaxLength
  /\ \E x \in ListItems : ObservableList_add(x)
  /\ UNCHANGED notObservableList

ListRemove ==
  /\ \E x \in ListItems : ObservableList_remove(x)
  /\ UNCHANGED notObservableList

ListReplace ==
  /\ \E x \in ListItems, newItem \in ListItems : ObservableList_replace(x, newItem)
  /\ UNCHANGED notObservableList

ListListener ==
  /\ listStack # <<>>
  /\ ObservableList_listener(listStack[Len(listStack)])
  /\ UNCHANGED notObservableList

ListReturn ==
  /\ listStack # <<>>
  /\ ObservableList_return(listStack[Len(listStack)])
  /\ UNCHANGED notObservableList

ObservableListNext ==
  \/ ListOnAdd \/ ListOnRemove \/ ListOnReplace
  \/ ListAdd \/ ListRemove \/ ListReplace
  \/ ListListener \/ ListReturn

(***************************************************************************)
(* JavaScript values of the virtual DOM                                    *)
(*   null / undefined        [t |-> "null"], [t |-> "undefined"]           *)
(*   a string, a number      [t |-> "string", str |-> s],                  *)
(*                           [t |-> "number", num |-> n]                   *)
(*   a function object       [t |-> "function", id |-> i, src |-> text]    *)
(*   an array                [t |-> "array", items |-> <<...>>]            *)
(*   a VNode                 [t |-> "object", tagName, attributes,         *)
(*                            children]                                    *)
(* An attributes object is a function from its keys to values.             *)
(***************************************************************************)
JsNull == [t |-> "null"]

JsUndefined == [t |-> "undefined"]

Str(s) == [t |-> "string", str |-> s]

Num(n) == [t |-> "number", num |-> n]

Fn(id, src) == [t |-> "function", id |-> id, src |-> src]

Array(items) == [t |-> "array", items |-> items]

\* null == x
IsNullish(x) == x \in {JsNull, JsUndefined}

\* typeof x
TypeOf(x) == IF x = JsNull THEN "object" ELSE x.t

\* Number.prototype.toString for the numbers of the model
NumToString(n) ==
  CASE n = 0 -> "0" [] n = 1 -> "1" [] n = 2 -> "2" [] n = 3 -> "3"
    [] n = 4 -> "4" [] n = 5 -> "5" [] n = 6 -> "6" [] n = 7 -> "7"
    [] n = 8 -> "8" [] n = 9 -> "9"

\* x.toString() for a string, a number or a function
JsToString(x) ==
  CASE x.t = "string" -> x.str
    [] x.t = "number" -> NumToString(x.num)
    [] x.t = "function" -> x.src

\* attributes[a]: a missing property reads as undefined
Attr(attributes, a) ==
  IF a \in DOMAIN attributes THEN attributes[a] ELSE JsUndefined

\* [].concat(...nodes): array arguments are spliced in, one level deep
RECURSIVE Concat(_)
Concat(nodes) ==
  IF nodes = <<>> THEN <<>>
  ELSE (IF Head(nodes).t = "array" THEN Head(nodes).items ELSE <<Head(nodes)>>)
         \o Concat(Tail(nodes))

\* vNode = (tagName, attributes = {}, ...nodes) => ({ tagName,
\*   attributes: null == attributes ? {} : attributes,
\*   children: null == nodes ? [] : [].concat(...nodes) })
\* `nodes` is the rest parameter: always an array, never null.
vNode(tagName, attributes, nodes) ==
  [t |-> "object",
   tagName |-> tagName,
   attributes |-> IF IsNullish(attributes) THEN <<>> ELSE attributes,
   children |-> Concat(nodes)]

h(tagName, attributes, nodes) == vNode(tagName, attributes, nodes)

(***************************************************************************)
(* The live display tree. Every live node carries the identity `id` of the *)
(* DOM object; document.createElement / createTextNode hand out new ones.  *)
(***************************************************************************)
createTextNode(data, id) == [nodeType |-> "text", id |-> id, data |-> data]

\* createDomElement without its filter `null != attributes[key]`
createDomElement_unfiltered(tagName, attributes, id) ==
  LET handlers == { key \in DOMAIN attributes :
                      TypeOf(attributes[key]) = "function" }
  IN  [nodeType |-> "element",
       id |-> id,
       tagName |-> tagName,
       attributes |-> [key \in DOMAIN attributes \ handlers |->
                         IF IsNullish(attributes[key]) THEN attributes[key].t
                         ELSE JsToString(attributes[key])],
       listeners |-> { <<key, attributes[key].id>> : key \in handlers },
       childNodes |-> <<>>]

\* createDomElement(tagName, attributes): attributes that are null/undefined
\* are skipped, functions become event listeners, the rest is set as an
\* attribute (setAttribute stores the value as a string)
createDomElement(tagName, attributes, id) ==
  LET present == { key \in DOMAIN attributes : ~IsNullish(attributes[key]) }
      handlers == { key \in present : TypeOf(attributes[key]) = "function" }
  IN  [nodeType |-> "element",
       id |-> id,
       tagName |-> tagName,
       attributes |-> [key \in present \ handlers |-> JsToString(attributes[key])],
       listeners |-> { <<key, attributes[key].id>> : key \in handlers },
       childNodes |-> <<>>]

\* render = node => ...; `next` is the identity the next created DOM object
\* gets. The result is the live node and the next unused identity.
RECURSIVE render(_, _), renderAll(_, _)
render(node, next) ==
  IF IsNullish(node)
    THEN [node |-> createTextNode("", next), next |-> next + 1]
  ELSE IF TypeOf(node) \in {"string", "number"}
    THEN [node |-> createTextNode(JsToString(node), next), next |-> next + 1]
  ELSE LET element == createDomElement(node.tagName, node.attributes, next)
           kids == renderAll(node.children, next + 1)
       IN  [node |-> [element EXCEPT !.childNodes = kids.nodes],
            next |-> kids.next]

\* node.children.forEach(c => $element.appendChild(render(c)))
renderAll(children, next) ==
  IF children = <<>> THEN [nodes |-> <<>>, next |-> next]
  ELSE LET first == render(Head(children), next)
           rest == renderAll(Tail(children), first.next)
       IN  [nodes |-> <<first.node>> \o rest.nodes, next |-> rest.next]

(***************************************************************************)
(* changed                                                                 *)
(***************************************************************************)
\* node.type: vNode sets tagName, attributes and children, and neither a
\* string nor a number has a property named type
TypeProperty(node) == JsUndefined

\* !!node.attributes
HasAttributes(node) == TypeOf(node) = "object"

\* null == v ? '' : v, then .toString()
AttrString(v) == IF IsNullish(v) THEN "" ELSE JsToString(v)

\* changed without the comparison `typeof node1 !== typeof node2`
changed_sameTypeOnly(node1, node2) ==
  LET nodeChanged ==
        \/ TypeOf(node1) \in {"string", "number"} /\ node1 # node2
        \/ TypeProperty(node1) # TypeProperty(node2)
      attributesChanged ==
        /\ HasAttributes(node1)
        /\ HasAttributes(node2)
        /\ \/ Cardinality(DOMAIN node1.attributes)
                # Cardinality(DOMAIN node2.attributes)
           \/ \E a \in DOMAIN node1.attributes :
                /\ Attr(node1.attributes, a) # Attr(node2.attributes, a)
                /\ AttrString(Attr(node1.attributes, a))
                     # AttrString(Attr(node2.attributes, a))
  IN  nodeChanged \/ attributesChanged

\* changed = (node1, node2) => nodeChanged || attributesChanged
changed(node1, node2) ==
  LET nodeChanged ==
        \/ TypeOf(node1) # TypeOf(node2)
        \/ TypeOf(node1) \in {"string", "number"} /\ node1 # node2
        \/ TypeProperty(node1) # TypeProperty(node2)
      attributesChanged ==
        /\ HasAttributes(node1)
        /\ HasAttributes(node2)
        /\ \/ Cardinality(DOMAIN node1.attributes)
                # Cardinality(DOMAIN node2.attributes)
           \/ \E a \in DOMAIN node1.attributes :
                /\ Attr(node1.attributes, a) # Attr(node2.attributes, a)
                /\ AttrString(Attr(node1.attributes, a))
                     # AttrString(Attr(node2.attributes, a))
  IN  nodeChanged \/ attributesChanged

(***************************************************************************)
(* DOM calls on the live tree. The tree is the value of $root; a reference *)
(* to one of its nodes is the path of child positions leading to it, and   *)
(* the value of an expression that yields undefined is NoNode. A call the  *)
(* host rejects throws: the name of the exception is kept in `error`, and  *)
(* nothing after it runs.                                                  *)
(***************************************************************************)
NoNode == [ref |-> "undefined"]

NodeRef(path) == [ref |-> "node", path |-> path]

RECURSIVE NodeAt(_, _)
NodeAt(dom, path) ==
  IF path = <<>> THEN dom
  ELSE NodeAt(dom.childNodes[Head(path)], Tail(path))

RECURSIVE WithChildNodes(_, _, _)
WithChildNodes(dom, path, kids) ==
  IF path = <<>> THEN [dom EXCEPT !.childNodes = kids]
  ELSE [dom EXCEPT !.childNodes[Head(path)] =
                      WithChildNodes(@, Tail(path), kids)]

\* $parent.childNodes[index] (index counts from 0); a text node has no
\* child nodes
ChildNode(dom, parent, index) ==
  LET node == NodeAt(dom, parent.path) IN
    IF node.nodeType = "element" /\ index + 1 <= Len(node.childNodes)
      THEN NodeRef(Append(parent.path, index + 1))
      ELSE NoNode

Throw(d, name) == [d EXCEPT !.error = name]

\* the child is put in front of the others (insertBefore the first child)
appendChild_first(d, parent, child) ==
  IF parent = NoNode THEN Throw(d, "TypeError")
  ELSE LET node == NodeAt(d.dom, parent.path) IN
    IF node.nodeType # "element" THEN Throw(d, "HierarchyRequestError")
    ELSE [d EXCEPT
            !.dom = WithChildNodes(d.dom, parent.path,
                                   <<child>> \o node.childNodes),
            !.ops = Append(d.ops, [op |-> "appendChild", parent |-> node.id,
                                   child |-> child.id, old |-> child.id])]

\* $parent.appendChild(child)
appendChild(d, parent, child) ==
  IF parent = NoNode THEN Throw(d, "TypeError")
  ELSE LET node == NodeAt(d.dom, parent.path) IN
    IF node.nodeType # "element" THEN Throw(d, "HierarchyRequestError")
    ELSE [d EXCEPT
            !.dom = WithChildNodes(d.dom, parent.path,
                                   Append(node.childNodes, child)),
            !.ops = Append(d.ops, [op |-> "appendChild", parent |-> node.id,
                                   child |-> child.id, old |-> child.id])]

Without(seq, i) == SubSeq(seq, 1, i - 1) \o SubSeq(seq, i + 1, Len(seq))

\* $parent.removeChild(child), child being $parent.childNodes[index]
removeChild(d, parent, child) ==
  IF parent = NoNode \/ child = NoNode THEN Throw(d, "TypeError")
  ELSE LET node == NodeAt(d.dom, parent.path)
           i == child.path[Len(child.path)]
       IN  [d EXCEPT
              !.dom = WithChildNodes(d.dom, parent.path,
                                     Without(node.childNodes, i)),
              !.ops = Append(d.ops, [op |-> "removeChild", parent |-> node.id,
                                     child |-> node.childNodes[i].id,
                                     old |-> node.childNodes[i].id])]

\* replaceChild applied to $parent.firstChild, whatever the index
replaceChild_first(d, parent, newChild, oldChild) ==
  IF parent = NoNode \/ oldChild = NoNode THEN Throw(d, "TypeError")
  ELSE LET node == NodeAt(d.dom, parent.path) IN
    [d EXCEPT
       !.dom = WithChildNodes(d.dom, parent.path,
                              [node.childNodes EXCEPT ![1] = newChild]),
       !.ops = Append(d.ops, [op |-> "replaceChild", parent |-> node.id,
                              child |-> newChild.id,
                              old |-> node.childNodes[1].id])]

\* $parent.replaceChild(newChild, oldChild), oldChild being
\* $parent.childNodes[index]
replaceChild(d, parent, newChild, oldChild) ==
  IF parent = NoNode \/ oldChild = NoNode THEN Throw(d, "TypeError")
  ELSE LET node == NodeAt(d.dom, parent.path)
           i == oldChild.path[Len(oldChild.path)]
       IN  [d EXCEPT
              !.dom = WithChildNodes(d.dom, parent.path,
                                     [node.childNodes EXCEPT ![i] = newChild]),
              !.ops = Append(d.ops, [op |-> "replaceChild", parent |-> node.id,
                                     child |-> newChild.id,
                                     old |-> node.childNodes[i].id])]

\* render(node) as an argument of a DOM call: the node and the run after it
Rendered(d, node) ==
  LET r == render(node, d.next) IN [node |-> r.node, d |-> [d EXCEPT !.next = r.next]]

\* array[i] (i counts from 0): undefined past the end
At(array, i) == IF i + 1 <= Len(array) THEN array[i + 1] ELSE JsUndefined

(***************************************************************************)
(* diff                                                                    *)
(***************************************************************************)
RECURSIVE diff(_, _, _, _, _), diffChildren(_, _, _, _, _, _)

\* diff = ($parent, newNode, oldNode, index = 0) => ...
diff(d, parent, new, old, index) ==
  IF d.error # "" THEN d
  ELSE IF IsNullish(old) THEN
    IF parent = NoNode THEN Throw(d, "TypeError")
    ELSE LET r == Rendered(d, new) IN appendChild(r.d, parent, r.node)
  ELSE IF IsNullish(new) THEN
    IF parent = NoNode THEN Throw(d, "TypeError")
    ELSE removeChild(d, parent, ChildNode(d.dom, parent, index))
  ELSE IF changed(old, new) THEN
    IF parent = NoNode THEN Throw(d, "TypeError")
    ELSE LET r == Rendered(d, new)
         IN  replaceChild(r.d, parent, r.node, ChildNode(d.dom, parent, index))
  ELSE IF TypeOf(new) = "object" /\ new.tagName # ""
    THEN diffChildren(d, parent, new, old, index, 0)
  ELSE d

\* the loop comparing every new child with the first old child
diffChildren_firstOld(d, parent, new, old, index, i) ==
  IF d.error # "" \/ i >= Len(new.children) THEN d
  ELSE IF parent = NoNode THEN Throw(d, "TypeError")
  ELSE diffChildren(
         diff(d, ChildNode(d.dom, parent, index), At(new.children, i),
              At(old.children, 0), i),
         parent, new, old, index, i + 1)

\* newNode.children.forEach((newNode, i) => {
\*   diff($parent.childNodes[index], newNode, oldNode.children[i], i); })
\* from iteration i on
diffChildren(d, parent, new, old, index, i) ==
  IF d.error # "" \/ i >= Len(new.children) THEN d
  ELSE IF parent = NoNode THEN Throw(d, "TypeError")
  ELSE diffChildren(
         diff(d, ChildNode(d.dom, parent, index), At(new.children, i),
              At(old.children, i), i),
         parent, new, old, index, i + 1)

(***************************************************************************)
(* A mounted view and one update of it: $root holds render(oldNode) as its *)
(* first child (mountMVC: $root.prepend(render(vDom))), then               *)
(* diff($root, newNode, oldNode) runs.                                     *)
(***************************************************************************)
MaxChildren == 2

Tags == {"div", "span"}

NoAttributes == <<>>

\* the child nodes the views of the model are built from
Kids ==
  { JsNull, Str("a"), Str("b"),
    h("span", [id |-> Str("1")], <<>>),
    h("span", NoAttributes, <<Str("a")>>) }

UpTo(S, n) == UNION { [1..k -> S] : k \in 0..n }

\* the trees a view returns: h(tag, {}, [ ...kids ])
Views ==
  { h(tagName, NoAttributes, <<Array(kids)>>) :
      tagName \in Tags, kids \in UpTo(Kids, MaxChildren) }

Root == [nodeType |-> "element", id |-> 0, tagName |-> "main",
         attributes |-> <<>>, listeners |-> {}, childNodes |-> <<>>]

\* $root is DOM object 0; the objects render creates are numbered from 1
Mount(node) ==
  LET r == render(node, 1) IN
    [dom |-> [Root EXCEPT !.childNodes = <<r.node>>],
     ops |-> <<>>, next |-> r.next, error |-> "", done |-> FALSE]

VdomInit ==
  /\ oldNode \in Views
  /\ newNode \in Views
  /\ run = Mount(oldNode)
  /\ mounted = run.dom

VdomIdle ==
  /\ oldNode = JsNull
  /\ newNode = JsNull
  /\ run = [dom |-> Root, ops |-> <<>>, next |-> 1, error |-> "",
            done |-> FALSE]
  /\ mounted = Root

\* refresh with diffing: diff($root, newVDom, vDom)
Diff ==
  /\ target = "diff"
  /\ ~run.done
  /\ run' = [diff(run, NodeRef(<<>>), newNode, oldNode, 0) EXCEPT !.done = TRUE]
  /\ UNCHANGED <<oldNode, newNode, mounted, notVdom>>

(***************************************************************************)
(* toVNode (src/unnamed/part_002:36-50): a live element read back as a     *)
(* VNode. The host reports the tag name of an element of an HTML document  *)
(* in upper case, $node.children holds the element children only, and      *)
(* $node.textContent is the text of all descendants, concatenated.         *)
(***************************************************************************)
\* String.prototype.toUpperCase for the tag names of the model
ToUpperCase(str) ==
  CASE str = "div" -> "DIV" [] str = "span" -> "SPAN" [] str = "main" -> "MAIN"
    [] OTHER -> str

\* $node.tagName
tagName(node) == ToUpperCase(node.tagName)

\* $node.children
children(node) == SelectSeq(node.childNodes, LAMBDA c : c.nodeType = "element")

\* $node.textContent
RECURSIVE textContent(_), textContents(_)
textContent(node) ==
  IF node.nodeType = "text" THEN node.data ELSE textContents(node.childNodes)

textContents(nodes) ==
  IF nodes = <<>> THEN ""
  ELSE textContent(Head(nodes)) \o textContents(Tail(nodes))

\* Object.values($node.attributes).reduce(...): name -> value, a string
attributesOf(node) ==
  [name \in DOMAIN node.attributes |-> Str(node.attributes[name])]

RECURSIVE toVNode(_)
toVNode(node) ==
  LET kids == children(node) IN
    IF Len(kids) > 0
      THEN vNode(tagName(node), attributesOf(node),
                 <<Array([i \in 1..Len(kids) |-> toVNode(kids[i])])>>)
      ELSE vNode(tagName(node), attributesOf(node), <<Str(textContent(node))>>)

(***************************************************************************)
(* changed, h, render and toVNode applied to arguments: `target` names the *)
(* function, `call` holds its arguments and, once it has run, the result   *)
(* (a value, or the exception thrown).                                     *)
(***************************************************************************)
MaxArgs == 2

Returned(value) == [error |-> "", value |-> value]

Thrown(name) == [error |-> name]

NoResult == [error |-> "none"]

Pending(args) == [args |-> args, done |-> FALSE, result |-> NoResult]

CallIdle == call = Pending(<<>>)

AttrKeys == {"id", "test"}

AttrValues == {Num(1), Num(2), Str("1"), Str(""), JsNull, JsUndefined}

\* attributes objects: any subset of the keys, any values
AttributeMaps(keys, values) == UNION { [K -> values] : K \in SUBSET keys }

\* the arguments changed is applied to
ChangedArgs ==
  { h(tag, attributes, nodes) :
      tag \in Tags, attributes \in AttributeMaps(AttrKeys, AttrValues),
      nodes \in {<<>>, <<Str("a")>>} }
    \cup {Num(1), Num(2), Str("1"), Str("a"), JsNull, JsUndefined}

\* the child arguments h is applied to
ChildArgs ==
  { JsNull, JsUndefined, Str("a"), Num(1), h("span", NoAttributes, <<>>),
    Array(<<>>), Array(<<Str("a"), JsNull>>), Array(<<Array(<<Str("b")>>)>>) }

\* h(tag, attributes, ...nodes); no attributes argument reads as undefined
HArgs ==
  { <<tag, attributes, nodes>> :
      tag \in Tags,
      attributes \in {JsNull, JsUndefined, NoAttributes, [id |-> Str("1")]},
      nodes \in UpTo(ChildArgs, MaxArgs) }

RenderKids ==
  { JsNull, Str("a"), Num(1), h("span", [id |-> Num(1)], <<Str("b")>>) }

\* the nodes render is applied to
RenderArgs ==
  { h(tag, attributes, <<Array(kids)>>) :
      tag \in Tags,
      attributes \in AttributeMaps({"id", "click"},
                                   {Str("1"), Num(2), JsNull, JsUndefined,
                                    Fn(1, "f")}),
      kids \in UpTo(RenderKids, MaxChildren) }
    \cup {JsNull, JsUndefined, Str("a"), Num(1)}

TreeKids ==
  { Str("a"), Num(1), h("SPAN", NoAttributes, <<Str("b")>>),
    h("span", NoAttributes, <<>>) }

\* the trees rendered and read back: no event listeners among the attributes
Trees ==
  { h(tag, attributes, <<Array(kids)>>) :
      tag \in {"div", "DIV"},
      attributes \in {NoAttributes, [id |-> Str("1")], [id |-> Num(1)]},
      kids \in UpTo(TreeKids, MaxChildren) }

CallInit ==
  /\ target \in {"changed", "h", "render", "toVNode"}
  /\ call \in { Pending(args) :
                  args \in CASE target = "changed" -> ChangedArgs \X ChangedArgs
                             [] target = "h" -> HArgs
                             [] target = "render" -> { <<node>> : node \in RenderArgs }
                             [] target = "toVNode" -> { <<node>> : node \in Trees } }

Return(result) ==
  /\ ~call.done
  /\ call' = [call EXCEPT !.done = TRUE, !.result = result]
  /\ UNCHANGED <<target, notCall>>

\* changed(node1, node2). When the typeof test does not decide, node1.type
\* and node2.type are read: of null or undefined that throws a TypeError.
Changed ==
  /\ target = "changed"
  /\ LET node1 == call.args[1]
         node2 == call.args[2]
     IN  Return(IF TypeOf(node1) = TypeOf(node2)
                     /\ (IsNullish(node1) \/ IsNullish(node2))
                  THEN Thrown("TypeError")
                  ELSE Returned(changed(node1, node2)))

\* h(tagName, attributes, ...nodes)
H ==
  /\ target = "h"
  /\ Return(Returned(h(call.args[1], call.args[2], call.args[3])))

\* render(node)
Render ==
  /\ target = "render"
  /\ Return(Returned(render(call.args[1], 1).node))

\* toVNode(render(node))
ToVNode ==
  /\ target = "toVNode"
  /\ Return(Returned(toVNode(render(call.args[1], 1).node)))

(***************************************************************************)
(* diff applied to arguments: a live parent that holds `index` siblings,   *)
(* then (when old is present) render(old) at slot `index`, then `extra`    *)
(* further siblings.                                                       *)
(***************************************************************************)
DiffKids ==
  { JsNull, Str("a"), Str("b"), Str("c"), h("span", NoAttributes, <<Str("a")>>) }

OldNodes ==
  { h("div", NoAttributes, <<Array(kids)>>) : kids \in UpTo(DiffKids, MaxChildren) }
    \cup {JsNull, JsUndefined}

NewNodes ==
  { h("div", attributes, <<Array(kids)>>) :
      attributes \in {NoAttributes, [id |-> Str("1")]},
      kids \in UpTo(DiffKids, MaxChildren + 1) }
    \cup {JsNull, Str("a")}

Indexes == {0, 1}

Extras == {0, 1}

\* <<newNode, oldNode, index, extra>>
DiffArgs == NewNodes \X OldNodes \X Indexes \X Extras

\* the live tree under $parent before the call; $parent is DOM object 0
ParentOf(old, index, extra) ==
  LET before == [i \in 1..index |-> createTextNode("s", i)]
      slot == IF IsNullish(old) THEN [nodes |-> <<>>, next |-> index + 1]
              ELSE LET r == render(old, index + 1)
                   IN  [nodes |-> <<r.node>>, next |-> r.next]
      after == [i \in 1..extra |-> createTextNode("s", slot.next + i - 1)]
  IN  [dom |-> [Root EXCEPT !.childNodes = before \o slot.nodes \o after],
       ops |-> <<>>, next |-> slot.next + extra, error |-> "", done |-> FALSE]

DiffAtInit ==
  /\ target = "diffAt"
  /\ call \in { Pending(args) : args \in DiffArgs }

\* the attributes of the input element of a view such as
\*   h('div', {}, [h('input', { input: evt => ... }), h('span', {}, text)])
\* Every evaluation of the arrow function gives a new function object; two
\* handlers with the same source text differ in their id only.
Handlers == { Fn(1, "a"), Fn(2, "a"), Fn(2, "b") }

HandlerAttributes ==
  UNION { [keys -> Handlers \cup {Str("1"), JsUndefined}] :
            keys \in SUBSET {"input", "id"} }

HandlerViews ==
  { h("div", NoAttributes,
      <<Array(<<h("input", attributes, <<>>), h("span", NoAttributes, <<text>>)>>)>>) :
      attributes \in HandlerAttributes, text \in {Str("a"), Str("b")} }

\* diff($root, newVDom, vDom) on the live tree render(vDom)
HandlersInit ==
  /\ target = "diffAt"
  /\ call \in { Pending(<<new, old, 0, 0>>) :
                  new \in HandlerViews, old \in HandlerViews }

\* diff($parent, newNode, oldNode, index)
DiffAt ==
  /\ target = "diffAt"
  /\ Return(Returned(diff(ParentOf(call.args[2], call.args[3], call.args[4]),
                          NodeRef(<<>>), call.args[1], call.args[2],
                          call.args[3])))

(***************************************************************************)
(* mount($root, view, initialState, useDiffing), once with and once        *)
(* without diffing, each on a $root of its own, with the view              *)
(*   ({ state }) => h(state.tagName, {}, state.children)                   *)
(* and the same calls of setState made on both. An object is a function    *)
(* from its keys to their values. Between two calls the DOM objects are    *)
(* renumbered: the identity of a DOM object is known up to renaming.       *)
(***************************************************************************)
MaxUpdates == 2

MountKids == { JsNull, Str("a"), h("span", NoAttributes, <<Str("a")>>) }

StateKeys == {"tagName", "children"}

States ==
  { [key \in StateKeys |-> IF key = "tagName" THEN Str(tag) ELSE Array(kids)] :
      tag \in Tags, kids \in UpTo(MountKids, MaxChildren) }

\* the arguments of setState: objects holding some of the keys
Partials == { [key \in keys |-> state[key]] : state \in States, keys \in SUBSET StateKeys }

\* how many nodes $root holds before mount is called
Occupied == {0, 1, 2}

\* { ..._state, ...newState }
Merge(state, newState) ==
  [key \in DOMAIN state \cup DOMAIN newState |->
     IF key \in DOMAIN newState THEN newState[key] ELSE state[key]]

view(state) == h(state["tagName"].str, NoAttributes, <<state["children"]>>)

RECURSIVE Renumbered(_, _), RenumberedAll(_, _)
Renumbered(node, next) ==
  IF node.nodeType = "text"
    THEN [node |-> [node EXCEPT !.id = next], next |-> next + 1]
    ELSE LET kids == RenumberedAll(node.childNodes, next + 1)
         IN  [node |-> [node EXCEPT !.id = next, !.childNodes = kids.nodes],
              next |-> kids.next]

RenumberedAll(nodes, next) ==
  IF nodes = <<>> THEN [nodes |-> <<>>, next |-> next]
  ELSE LET first == Renumbered(Head(nodes), next)
           rest == RenumberedAll(Tail(nodes), first.next)
       IN  [nodes |-> <<first.node>> \o rest.nodes, next |-> rest.next]

\* the live tree under $root at the start of a call: $root is DOM object 0
Live(root) ==
  LET r == Renumbered(root, 0) IN
    [dom |-> r.node, ops |-> <<>>, next |-> r.next, error |-> "",
     done |-> FALSE]

\* $root.firstChild
firstChild(d) == ChildNode(d.dom, NodeRef(<<>>), 0)

\* $root.replaceChild(render(node), $root.firstChild)
replaceFirstChild(d, node) ==
  LET r == Rendered(d, node) IN
    replaceChild(r.d, NodeRef(<<>>), r.node, firstChild(d))

\* the closure of a mount after a call that ran `d` from the closure `before`:
\* `viewed` are the states the view was invoked with, and the assignment
\* vDom = newVDom is reached only when nothing threw
Closure(before, state, viewed, newVDom, d) ==
  [state |-> state,
   vDom |-> IF d.error = "" THEN newVDom ELSE before.vDom,
   root |-> d.dom, ops |-> d.ops, error |-> d.error,
   viewed |-> viewed, before |-> before]

\* mount: let _state = initialState; let vDom = view(viewParams);
\* if ($root.firstChild) $root.replaceChild(render(vDom), $root.firstChild)
\* else $root.appendChild(render(vDom))
mount(root, initialState) ==
  LET d == Live(root)
      vDom == view(initialState)
      r == Rendered(d, vDom)
  IN  Closure([state |-> initialState, vDom |-> vDom, root |-> d.dom],
              initialState, <<initialState>>, vDom,
              IF firstChild(d) # NoNode
                THEN replaceFirstChild(d, vDom)
                ELSE appendChild(r.d, NodeRef(<<>>), r.node))

\* setState = newState => { _state = { ..._state, ...newState };
\*   const newVDom = view(viewParams);
\*   if (useDiffing) diff($root, vDom, newVDom);
\*   else $root.replaceChild(render(newVDom), $root.firstChild);
\*   vDom = newVDom; }
\* (part_002's diff takes the old node before the new one)
setState(closure, useDiffing, newState) ==
  LET state == Merge(closure.state, newState)
      newVDom == view(state)
      d == Live(closure.root)
  IN  Closure([state |-> closure.state, vDom |-> closure.vDom, root |-> d.dom],
              state, <<state>>, newVDom,
              IF useDiffing
                THEN diff(d, NodeRef(<<>>), newVDom, closure.vDom, 0)
                ELSE replaceFirstChild(d, newVDom))

NoClosure ==
  [state |-> <<>>, vDom |-> JsNull, root |-> Root, ops |-> <<>>, error |-> "",
   viewed |-> <<>>, before |-> [state |-> <<>>, vDom |-> JsNull, root |-> Root]]

MountIdle ==
  /\ instances = [useDiffing \in BOOLEAN |-> NoClosure]
  /\ update = [count |-> 0, newState |-> <<>>, made |-> BOOLEAN]

MountInit ==
  /\ target = "mount"
  /\ \E initialState \in States, occupied \in Occupied :
       instances =
         [useDiffing \in BOOLEAN |->
            mount([Root EXCEPT !.childNodes =
                     [i \in 1..occupied |-> createTextNode("s", i)]],
                  initialState)]
  /\ update = [count |-> 0, newState |-> <<>>, made |-> BOOLEAN]

\* setState(newState) is called on one of the two mounts; once both have
\* been given a state change, the next one is chosen
SetState ==
  /\ target = "mount"
  /\ \E useDiffing \in BOOLEAN, newState \in Partials :
       /\ IF update.made = BOOLEAN
            THEN /\ update.count < MaxUpdates
                 /\ update' = [count |-> update.count + 1,
                               newState |-> newState, made |-> {useDiffing}]
            ELSE /\ newState = update.newState
                 /\ useDiffing \notin update.made
                 /\ update' = [update EXCEPT !.made = @ \cup {useDiffing}]
       /\ instances' = [instances EXCEPT
                          ![useDiffing] = setState(@, useDiffing, newState)]
  /\ UNCHANGED notMount

(***************************************************************************)
(* Controller: new Controller($root, state, view, diffing) with the view   *)
(*   controller => h('div', {}, controller.model.value,                    *)
(*                              controller.model.text)                     *)
(* this.state is the ObservableObject of the variables above; the shared   *)
(* store holds {} and is left alone. The first listener of this.state is   *)
(* the callback `s => this.refresh()` that init registers; the listeners   *)
(* and subscribers a client registers record their arguments. An exception *)
(* thrown by refresh leaves forEach, notify and the call that notified.    *)
(***************************************************************************)
RefreshCallback == 1

ModelVals == {"1", Undefined}

\* the objects passed to set and replace
Models ==
  { o \in Objects : /\ \A i \in 1..Len(o) : o[i].v \in ModelVals
                    /\ Len(o) = Cardinality(Keys) => o[1].k = "value" }

\* the states a Controller is constructed with
InitialStates ==
  { <<>>, <<[k |-> "value", v |-> "1"]>>,
    <<[k |-> "value", v |-> "1"], [k |-> "text", v |-> "1"]>> }

\* get model() { return { ...store.get(), ...this.state.get() }; }
model(state) == Spread(<<>>, state)

\* a property of the model as an argument of h
Child(v) == IF v = Undefined THEN JsUndefined ELSE Str(v)

controllerView(m) ==
  h("div", NoAttributes, <<Child(Lookup(m, "value")), Child(Lookup(m, "text"))>>)

\* $parent.prepend(child)
prepend(d, parent, child) ==
  LET node == NodeAt(d.dom, parent.path) IN
    [d EXCEPT
       !.dom = WithChildNodes(d.dom, parent.path, <<child>> \o node.childNodes),
       !.ops = Append(d.ops, [op |-> "prepend", parent |-> node.id,
                              child |-> child.id, old |-> child.id])]

\* repaint(newVDom) { if (this.diffing) diff(this.$root, newVDom, this.vDom);
\*   else this.$root.replaceChild(render(newVDom), this.$root.firstChild); }
repaint(c, newVDom) ==
  IF c.diffing
    THEN diff(Live(c.root), NodeRef(<<>>), newVDom, c.vDom, 0)
    ELSE replaceFirstChild(Live(c.root), newVDom)

\* refresh() { const newVDom = this.view(this); this.repaint(newVDom);
\*             this.vDom = newVDom; }
\* `state` is what this.state.get() returns when the view reads the model
refresh(c, state) ==
  LET newVDom == controllerView(model(state))
      d == repaint(c, newVDom)
  IN  [c EXCEPT !.vDom = IF d.error = "" THEN newVDom ELSE @,
                !.root = d.dom,
                !.error = d.error,
                !.refreshes = Append(@, [model |-> model(state),
                                         completed |-> d.error = ""])]

\* constructor and init(): this.vDom = this.view(this);
\* this.$root.prepend(render(this.vDom));
\* this.store.onChange(s => this.refresh());
\* this.state.onChange(s => this.refresh());
\* each onChange invokes its callback at once
Controller(root, state, diffing) ==
  LET vDom == controllerView(model(state))
      r == Rendered(Live(root), vDom)
      d == prepend(r.d, NodeRef(<<>>), r.node)
      constructed == [diffing |-> diffing, vDom |-> vDom, root |-> d.dom,
                      error |-> "", refreshes |-> <<>>, updates |-> 0]
  IN  refresh(refresh(constructed, state), state)

ControllerIdle ==
  controller = [diffing |-> TRUE, vDom |-> JsNull, root |-> Root, error |-> "",
                refreshes |-> <<>>, updates |-> 0]

ControllerInit ==
  /\ target = "Controller"
  /\ variant = "part_005"
  /\ object \in InitialStates
  /\ objListeners = <<RefreshCallback>>
  /\ subscribers = [key \in Keys |-> <<>>]
  /\ objStack = <<>>
  /\ objCalls = <<ObjEntry("listener", RefreshCallback, "",
                           [newObject |-> object, oldObject |-> object])>>
  /\ objOp = [name |-> "Controller", key |-> "", arg |-> object,
              object |-> object, notifies |-> FALSE]
  /\ \E diffing \in BOOLEAN, occupied \in {0, 1} :
       controller =
         Controller([Root EXCEPT !.childNodes =
                       [i \in 1..occupied |-> createTextNode("s", i)]],
                    object, diffing)

ControllerReady == target = "Controller" /\ objStack = <<>>

\* a call of this.state.set / push / remove / replace begins
ControllerMutates(name, key, arg, notifies) ==
  /\ controller.updates < MaxUpdates
  /\ objOp' = [name |-> name, key |-> key, arg |-> arg, object |-> object,
               notifies |-> notifies]
  /\ objCalls' = <<>>
  /\ controller' = [controller EXCEPT !.error = "", !.refreshes = <<>>,
                                      !.updates = @ + 1]
  /\ UNCHANGED <<notController, variant, objListeners, subscribers>>

ControllerSet ==
  /\ ControllerReady
  /\ \E newObject \in Models :
       /\ ObservableObject_set(newObject)
       /\ ControllerMutates("set", "", newObject, TRUE)

ControllerPush ==
  /\ ControllerReady
  /\ \E key \in Keys, value \in ModelVals :
       /\ ObservableObject_push(key, value)
       /\ ControllerMutates("push", key, <<[k |-> key, v |-> value]>>, TRUE)

ControllerRemove ==
  /\ ControllerReady
  /\ \E key \in Keys :
       /\ ObservableObject_remove(key)
       /\ ControllerMutates("remove", key, <<>>, TRUE)

ControllerReplace ==
  /\ ControllerReady
  /\ \E newObject \in Models, same \in BOOLEAN :
       /\ same => newObject = object
       /\ ObservableObject_replace(newObject, same)
       /\ ControllerMutates("replace", "", newObject, ~same)

\* a client registers a listener of its own: this.state.onChange(callback)
ControllerOnChange ==
  /\ ControllerReady
  /\ Len(objListeners) < MaxListeners
  /\ ObservableObject_onChange(NewCallback(objListeners))
  /\ objOp' = [name |-> "onChange", key |-> "", arg |-> <<>>, object |-> object,
               notifies |-> FALSE]
  /\ UNCHANGED <<notObservableObject, variant, object, subscribers, objStack>>

ControllerSubscribe ==
  /\ ControllerReady
  /\ \E key \in Keys :
       /\ Len(subscribers[key]) < MaxSubscribers
       /\ ObservableObject_subscribe(key, NewCallback(subscribers[key]))
       /\ objOp' = [name |-> "subscribe", key |-> key, arg |-> <<>>,
                    object |-> object, notifies |-> FALSE]
  /\ UNCHANGED <<notObservableObject, variant, object, objListeners, objStack>>

\* listener(newObject, oldObject) with listener being s => this.refresh():
\* when refresh throws, the loops and the call that notified are left
Controller_refreshes(f) ==
  /\ f.k > Len(f.newObject)
  /\ f.l <= Len(objListeners)
  /\ objListeners[f.l] = RefreshCallback
  /\ objCalls' = Append(objCalls, ObjEntry("listener", RefreshCallback, "", f))
  /\ controller' = refresh(controller, object)
  /\ objStack' = IF controller'.error = ""
                   THEN [objStack EXCEPT ![Len(objStack)].l = f.l + 1]
                   ELSE <<>>
  /\ UNCHANGED <<variant, object, objListeners, subscribers, objOp>>

\* one iteration of listeners.forEach(listener => listener(newObject, oldObject))
ControllerListener ==
  /\ target = "Controller"
  /\ objStack # <<>>
  /\ LET f == objStack[Len(objStack)] IN
       \/ Controller_refreshes(f)
       \/ /\ f.l <= Len(objListeners)
          /\ objListeners[f.l] # RefreshCallback
          /\ ObservableObject_listener(f)
          /\ UNCHANGED controller
  /\ UNCHANGED notController

ControllerNext ==
  \/ ControllerSet \/ ControllerPush \/ ControllerRemove \/ ControllerReplace
  \/ ControllerOnChange \/ ControllerSubscribe
  \/ ObjNextKey \/ ObjSubscriber \/ ControllerListener \/ ObjReturn

(***************************************************************************)
(* PuerroElement: a custom element with the state { num1, num2 } and       *)
(*   render() { return h('div', {}, h('span', {}, '= ' + (num1 + num2))) } *)
(* setState reads the identifier `state`, which the bundle declares        *)
(* nowhere: the read throws a ReferenceError unless the page has a global  *)
(* of that name, and then the global is what the function is applied to.   *)
(***************************************************************************)
ElementKeys == {"num1", "num2"}

ElementVals == {Num(0), Num(1)}

ElementStates == [ElementKeys -> ElementVals]

\* the objects handed to setState
ElementPartials == UNION { [keys -> ElementVals] : keys \in SUBSET ElementKeys }

\* the functions handed to setState:
\*   s => ({ num1: 1 - s.num1 })  and  s => ({ num2: s.num1 })
Updaters == {"flip", "copy"}

Apply(updater, state) ==
  IF updater = "flip" THEN [k \in {"num1"} |-> Num(1 - state["num1"].num)]
                      ELSE [k \in {"num2"} |-> state["num1"]]

\* no global named `state`
Undeclared == [t |-> "undeclared"]

elementRender(state) ==
  h("div", NoAttributes,
    <<h("span", NoAttributes,
        <<Str("= " \o NumToString(state["num1"].num + state["num2"].num))>>)>>)

\* refresh() { const newVNode = this.render();
\*   if (null == this.vNode) this.prepend(render(this.render()));
\*   else diff(this, newVNode, this.vNode);
\*   this.vNode = newVNode; }
elementRefresh(e) ==
  LET newVNode == elementRender(e.state)
      d == Live(e.root)
      r == Rendered(d, elementRender(e.state))
      after == IF IsNullish(e.vNode)
                 THEN prepend(r.d, NodeRef(<<>>), r.node)
                 ELSE diff(d, NodeRef(<<>>), newVNode, e.vNode, 0)
  IN  [e EXCEPT !.vNode = IF after.error = "" THEN newVNode ELSE @,
                !.root = after.dom,
                !.error = after.error,
                !.refreshes = @ + 1,
                !.renders = @ + (IF IsNullish(e.vNode) THEN 2 ELSE 1)]

\* a call begins: what it was given and the state it found
Called(e, name, given, arg) ==
  [e EXCEPT !.op = [name |-> name, given |-> given, arg |-> arg,
                    state |-> e.state],
            !.error = "", !.refreshes = 0, !.renders = 0]

\* setState(newState) with newState an object
setState_object(e, newState) ==
  elementRefresh([Called(e, "setState", "object", newState) EXCEPT
                    !.state = Merge(e.state, newState)])

\* setState(newState) with newState a function:
\*   this.state = { ...this.state, ...newState(state) }; this.refresh();
setState_function(e, updater) ==
  IF e.global = Undeclared
    THEN [Called(e, "setState", "function", updater) EXCEPT !.error = "ReferenceError"]
    ELSE elementRefresh([Called(e, "setState", "function", updater) EXCEPT
                           !.state = Merge(e.state, Apply(updater, e.global))])

ElementIdle ==
  puerroElement = [state |-> <<>>, global |-> Undeclared, vNode |-> JsNull,
             root |-> Root, error |-> "", refreshes |-> 0, renders |-> 0,
             op |-> [name |-> "none", given |-> "nothing", arg |-> <<>>,
                     state |-> <<>>]]

\* constructor(initialState = {}) { super(); this.state = initialState; }
ElementInit ==
  /\ target = "PuerroElement"
  /\ \E initialState \in ElementStates,
        global \in {Undeclared} \cup ElementStates :
       puerroElement = [state |-> initialState, global |-> global, vNode |-> JsNull,
                  root |-> Root, error |-> "", refreshes |-> 0, renders |-> 0,
                  op |-> [name |-> "constructor", given |-> "object",
                          arg |-> initialState,
                          state |-> initialState]]

\* connectedCallback() { this.refresh(); }
ConnectedCallback ==
  /\ target = "PuerroElement"
  /\ puerroElement.op.name = "constructor"
  /\ puerroElement' = elementRefresh(Called(puerroElement, "connectedCallback", "nothing", <<>>))
  /\ UNCHANGED notElement

SetStateObject ==
  /\ target = "PuerroElement"
  /\ \E newState \in ElementPartials :
       puerroElement' = setState_object(puerroElement, newState)
  /\ UNCHANGED notElement

SetStateFunction ==
  /\ target = "PuerroElement"
  /\ \E updater \in Updaters :
       puerroElement' = setState_function(puerroElement, updater)
  /\ UNCHANGED notElement

(***************************************************************************)
(* Controllers over the module-level store                                 *)
(*   const store = ObservableObject({});                                   *)
(* Every Controller has an ObservableObject of its own (this.state) and    *)
(* registers `s => this.refresh()` on the store and on its state. The      *)
(* observables are numbered: 0 is the store, c is the state of the c-th    *)
(* Controller constructed. A client registers listeners and subscribers of *)
(* its own, and these may call set, push, remove or replace on any of the  *)
(* observables while they are being notified. Callbacks are registered     *)
(* between notifications only, so the callbacks one notify invokes are     *)
(* known when it starts: the subscribers of every changed key in the order *)
(* of Object.keys(newObject), then the listeners.                          *)
(***************************************************************************)
StoreId == 0

\* s => this.refresh() of the c-th Controller
RefreshOf(c) == [kind |-> "refresh", controller |-> c]

\* a listener or subscriber of the client
ClientCallback == [kind |-> "client", controller |-> 0]

\* ObservableObject(object)
NewObservableObject(o) ==
  [object |-> o, listeners |-> <<>>, subscribers |-> [key \in Keys |-> <<>>]]

\* the calls that change an observable; `same` says that the argument of
\* replace is the very object the observable holds
Mutations ==
  { [method |-> "set", key |-> "", arg |-> <<[k |-> "text", v |-> "1"]>>,
     same |-> FALSE],
    [method |-> "push", key |-> "value", arg |-> <<[k |-> "value", v |-> "1"]>>,
     same |-> FALSE],
    [method |-> "remove", key |-> "value", arg |-> <<>>, same |-> FALSE],
    [method |-> "replace", key |-> "", arg |-> <<>>, same |-> FALSE],
    [method |-> "replace", key |-> "", arg |-> <<>>, same |-> TRUE] }

\* the states the Controllers are constructed with
PageStates == { state \in InitialStates : Len(state) # 1 }

\* the argument set, push, remove and replace hand to notify
Notifying(o, mutation) ==
  CASE mutation.method = "set" -> Spread(o.object, mutation.arg)
    [] mutation.method = "push" ->
         Spread(o.object, <<[k |-> mutation.key, v |-> mutation.arg[1].v]>>)
    [] mutation.method = "remove" ->
         Spread(o.object, <<[k |-> mutation.key, v |-> Undefined]>>)
    [] mutation.method = "replace" -> mutation.arg

\* Object.keys(newObject).forEach(key => { ...
\*   if (oldValue === newValue) return;
\*   (subscribers[key] || []).forEach(subscriber => subscriber(newValue, oldValue)); })
RECURSIVE Subscribed(_, _, _)
Subscribed(o, newObject, i) ==
  IF i > Len(newObject) THEN <<>>
  ELSE (IF Lookup(o.object, newObject[i].k) = newObject[i].v
          THEN <<>>
          ELSE o.subscribers[newObject[i].k])
       \o Subscribed(o, newObject, i + 1)

\* the loops that have no callback left return
RECURSIVE Unwound(_)
Unwound(frames) ==
  IF frames # <<>> /\ frames[Len(frames)].todo = <<>>
    THEN Unwound(SubSeq(frames, 1, Len(frames) - 1))
    ELSE frames

\* notify = newObject => { if (object == newObject) return;
\*   const oldObject = object; object = newObject; ...forEach...; ...forEach... }
\* the call is the next of mvc.changes
Store_notify(m, id, mutation) ==
  LET o == m.observables[id]
      same == mutation.same
      newObject == IF same THEN o.object ELSE Notifying(o, mutation)
      change == [on |-> id, mutation |-> mutation, notifies |-> ~same]
  IN  IF same
        THEN [m EXCEPT !.changes = Append(@, change),
                       !.stack = Unwound(@)]
        ELSE [m EXCEPT
                !.observables[id].object = newObject,
                !.changes = Append(@, change),
                !.stack = Unwound(Append(@,
                            [change |-> Len(m.changes) + 1,
                             todo |-> Subscribed(o, newObject, 1) \o o.listeners]))]

\* get model() { return { ...store.get(), ...this.state.get() }; }
Store_model(m, c) ==
  Spread(m.observables[StoreId].object, m.observables[c].object)

\* refresh() of the c-th Controller, called for the given change (0: by onChange)
Store_refresh(m, c, change) ==
  LET newVDom == controllerView(Store_model(m, c))
      d == repaint(m.controllers[c], newVDom)
  IN  [m EXCEPT
         !.controllers[c].vDom = IF d.error = "" THEN newVDom ELSE @,
         !.controllers[c].root = d.dom,
         !.error = d.error,
         !.log = Append(@, [change |-> change, controller |-> c,
                            completed |-> d.error = ""])]

\* observable.onChange(callback) with callback being s => this.refresh()
Store_onChange(m, id, c) ==
  Store_refresh([m EXCEPT !.observables[id].listeners = Append(@, RefreshOf(c))],
                c, 0)

\* new Controller($root, state, view, diffing): the constructor and init()
Store_Controller(m, state, diffing) ==
  LET c == Len(m.controllers) + 1
      vDom == controllerView(Spread(m.observables[StoreId].object, state))
      r == Rendered(Live(Root), vDom)
      d == prepend(r.d, NodeRef(<<>>), r.node)
      constructed ==
        [m EXCEPT
           !.observables = [id \in 0..c |-> IF id = c THEN NewObservableObject(state)
                                                      ELSE m.observables[id]],
           !.controllers = Append(@, [diffing |-> diffing, vDom |-> vDom,
                                      root |-> d.dom])]
      onStore == Store_onChange(constructed, StoreId, c)
  IN  IF onStore.error # "" THEN onStore ELSE Store_onChange(onStore, c, c)

\* what an outermost call starts from
Called_on(m, name) ==
  [m EXCEPT !.changes = <<>>, !.log = <<>>, !.error = "", !.op = name]

StoreIdle ==
  mvc = [observables |-> [id \in 0..0 |-> NewObservableObject(<<>>)],
         controllers |-> <<>>, stack |-> <<>>, changes |-> <<>>, log |-> <<>>,
         error |-> "", updates |-> 0, op |-> "none"]

StoreInit ==
  /\ target = "store"
  /\ StoreIdle

StoreQuiet == target = "store" /\ mvc.stack = <<>>

\* the callbacks the client has registered on the page
Clients ==
  LET RECURSIVE Sum(_)
      Sum(ids) ==
        IF ids = {} THEN 0
        ELSE LET id == CHOOSE x \in ids : TRUE
                 o == mvc.observables[id]
                 RECURSIVE Subs(_)
                 Subs(keys) ==
                   IF keys = {} THEN 0
                   ELSE LET key == CHOOSE x \in keys : TRUE
                        IN  Len(o.subscribers[key]) + Subs(keys \ {key})
             IN  Len(SelectSeq(o.listeners, LAMBDA cb : cb = ClientCallback))
                 + Subs(Keys) + Sum(ids \ {id})
  IN  Sum(DOMAIN mvc.observables)

NewController ==
  /\ StoreQuiet
  /\ Len(mvc.controllers) < MaxControllers
  /\ \E state \in PageStates, diffing \in BOOLEAN :
       mvc' = Store_Controller(Called_on(mvc, "Controller"), state, diffing)
  /\ UNCHANGED notStore

\* the client calls observable.onChange(callback); the callback is invoked
\* at once and does nothing on this call
StoreOnChange ==
  /\ StoreQuiet
  /\ \E id \in DOMAIN mvc.observables :
       /\ Clients < MaxClients
       /\ mvc' = [Called_on(mvc, "onChange") EXCEPT
                    !.observables[id].listeners = Append(@, ClientCallback)]
  /\ UNCHANGED notStore

StoreSubscribe ==
  /\ StoreQuiet
  /\ \E id \in DOMAIN mvc.observables, key \in Keys :
       /\ Clients < MaxClients
       /\ mvc' = [Called_on(mvc, "subscribe") EXCEPT
                    !.observables[id].subscribers[key] = Append(@, ClientCallback)]
  /\ UNCHANGED notStore

\* the client calls set, push, remove or replace of the store or of a state
StoreChange ==
  /\ StoreQuiet
  /\ mvc.updates < MaxUpdates
  /\ \E id \in DOMAIN mvc.observables, mutation \in Mutations :
       mvc' = Store_notify([Called_on(mvc, "change") EXCEPT !.updates = @ + 1],
                           id, mutation)
  /\ UNCHANGED notStore

\* the callback that is next in the innermost loop, and the loops without it
NextCallback == Head(mvc.stack[Len(mvc.stack)].todo)

Invoked ==
  [mvc EXCEPT !.stack[Len(mvc.stack)].todo = Tail(@)]

\* listener(newObject, oldObject) with listener being s => this.refresh():
\* when refresh throws, every loop and the call that notified are left
StoreRefreshes ==
  /\ target = "store"
  /\ mvc.stack # <<>>
  /\ NextCallback.kind = "refresh"
  /\ LET m == Store_refresh(Invoked, NextCallback.controller,
                            mvc.stack[Len(mvc.stack)].change)
     IN  mvc' = [m EXCEPT !.stack = IF m.error = "" THEN Unwound(@) ELSE <<>>]
  /\ UNCHANGED notStore

\* a callback of the client that changes nothing
ClientReturns ==
  /\ target = "store"
  /\ mvc.stack # <<>>
  /\ NextCallback.kind = "client"
  /\ mvc' = [Invoked EXCEPT !.stack = Unwound(@)]
  /\ UNCHANGED notStore

\* a callback of the client that calls set, push, remove or replace
ClientChanges ==
  /\ target = "store"
  /\ mvc.stack # <<>>
  /\ NextCallback.kind = "client"
  /\ mvc.updates < MaxUpdates
  /\ \E id \in DOMAIN mvc.observables, mutation \in Mutations :
       mvc' = Store_notify([Invoked EXCEPT !.updates = @ + 1], id, mutation)
  /\ UNCHANGED notStore

StoreNext ==
  \/ NewController \/ StoreOnChange \/ StoreSubscribe \/ StoreChange
  \/ StoreRefreshes \/ ClientReturns \/ ClientChanges

(***************************************************************************)
(* The observable containers: the program constructs one of them.          *)
(***************************************************************************)
Init ==
  /\ MountIdle
  /\ ControllerIdle
  /\ ElementIdle
  /\ StoreIdle
  /\ target \in {"Observable", "ObservableObject"}
  /\ IF target = "Observable"
       THEN /\ ObservableInit
            /\ reactions = [callback \in Callbacks |-> Passive]
            /\ delivered = <<>>
       ELSE ObservableIdle
  /\ IF target = "ObservableObject" THEN ObservableObjectInit
                                    ELSE ObservableObjectIdle
  /\ ObservableListIdle
  /\ VdomIdle
  /\ CallIdle

Next == ObservableNext \/ ObservableObjectNext

Spec == Init /\ [][Next]_vars

(***************************************************************************)
(* The reconciliation routine on its own.                                  *)
(***************************************************************************)
InitDiff ==
  /\ MountIdle
  /\ ControllerIdle
  /\ ElementIdle
  /\ StoreIdle
  /\ target = "diff"
  /\ ObservableIdle
  /\ ObservableObjectIdle
  /\ ObservableListIdle
  /\ VdomInit
  /\ CallIdle

NextDiff == Diff

SpecDiff == InitDiff /\ [][NextDiff]_vars

(***************************************************************************)
(* ObservableList on its own.                                              *)
(***************************************************************************)
InitList ==
  /\ MountIdle
  /\ ControllerIdle
  /\ ElementIdle
  /\ StoreIdle
  /\ target = "ObservableList"
  /\ ObservableIdle
  /\ ObservableObjectIdle
  /\ ObservableListInit
  /\ VdomIdle
  /\ CallIdle

NextList == ObservableListNext

SpecList == InitList /\ [][NextList]_vars

(***************************************************************************)
(* The functions of the virtual DOM on their own.                          *)
(***************************************************************************)
InitVdom ==
  /\ MountIdle
  /\ ControllerIdle
  /\ ElementIdle
  /\ StoreIdle
  /\ ObservableIdle
  /\ ObservableObjectIdle
  /\ ObservableListIdle
  /\ VdomIdle
  /\ CallInit

NextVdom == Changed \/ H \/ Render \/ ToVNode

SpecVdom == InitVdom /\ [][NextVdom]_vars

(***************************************************************************)
(* Observable with callbacks that call set.                                *)
(***************************************************************************)
InitReentrant ==
  /\ MountIdle
  /\ ControllerIdle
  /\ ElementIdle
  /\ StoreIdle
  /\ ReentrantInit
  /\ ObservableObjectIdle
  /\ ObservableListIdle
  /\ VdomIdle
  /\ CallIdle

NextReentrant ==
  ObservableSet \/ ObservableListener \/ ObservableReturn \/ ObservableRegister

SpecReentrant == InitReentrant /\ [][NextReentrant]_vars

(***************************************************************************)
(* Two mounts of the same view, one diffing and one replacing.             *)
(***************************************************************************)
InitMount ==
  /\ MountInit
  /\ ControllerIdle
  /\ ElementIdle
  /\ StoreIdle
  /\ ObservableIdle
  /\ ObservableObjectIdle
  /\ ObservableListIdle
  /\ VdomIdle
  /\ CallIdle

NextMount == SetState

SpecMount == InitMount /\ [][NextMount]_vars

(***************************************************************************)
(* A PuerroElement and the calls made on it.                               *)
(***************************************************************************)
InitElement ==
  /\ ElementInit
  /\ StoreIdle
  /\ ObservableIdle
  /\ ObservableObjectIdle
  /\ ObservableListIdle
  /\ VdomIdle
  /\ CallIdle
  /\ MountIdle
  /\ ControllerIdle

NextElement == ConnectedCallback \/ SetStateObject \/ SetStateFunction

SpecElement == InitElement /\ [][NextElement]_vars

(***************************************************************************)
(* diff applied to two trees of a view with an event handler.              *)
(***************************************************************************)
InitHandlers ==
  /\ HandlersInit
  /\ ObservableIdle
  /\ ObservableObjectIdle
  /\ ObservableListIdle
  /\ VdomIdle
  /\ MountIdle
  /\ ControllerIdle
  /\ ElementIdle
  /\ StoreIdle

NextHandlers == DiffAt

SpecHandlers == InitHandlers /\ [][NextHandlers]_vars

(***************************************************************************)
(* The Controllers of one page and the store they share.                   *)
(***************************************************************************)
InitStore ==
  /\ StoreInit
  /\ ControllerIdle
  /\ ElementIdle
  /\ ObservableIdle
  /\ ObservableObjectIdle
  /\ ObservableListIdle
  /\ VdomIdle
  /\ CallIdle
  /\ MountIdle

NextStore == StoreNext

SpecStore == InitStore /\ [][NextStore]_vars

(***************************************************************************)
(* A Controller and the calls made on its state.                           *)
(***************************************************************************)
InitController ==
  /\ ControllerInit
  /\ ElementIdle
  /\ StoreIdle
  /\ ObservableIdle
  /\ ObservableListIdle
  /\ VdomIdle
  /\ CallIdle
  /\ MountIdle

NextController == ControllerNext

SpecController == InitController /\ [][NextController]_vars

(***************************************************************************)
(* One call of diff on a prepared live parent.                             *)
(***************************************************************************)
InitDiffAt ==
  /\ MountIdle
  /\ ControllerIdle
  /\ ElementIdle
  /\ StoreIdle
  /\ ObservableIdle
  /\ ObservableObjectIdle
  /\ ObservableListIdle
  /\ VdomIdle
  /\ DiffAtInit

NextDiffAt == DiffAt

SpecDiffAt == InitDiffAt /\ [][NextDiffAt]_vars

(***************************************************************************)
(* Properties of Observable                                                *)
(***************************************************************************)
ObsSetCall == target = "Observable" /\ op.name = "set"

\* the calls made so far to callback c with arguments (n, o)
CallsTo(c, n, o) ==
  { i \in 1..Len(calls) :
      calls[i].who = c /\ calls[i].newValue = n /\ calls[i].oldValue = o }

Registrations(c, ls) == { i \in 1..Len(ls) : ls[i] = c }

\* C4: Observable.set. For an Observable holding x with n registered
\* listeners, set(x) invokes no listener and leaves the value unchanged;
\* set(y) with y # x invokes each registered listener exactly once with
\* arguments (y, x), invokes nothing else, and get() returns y afterwards.
C4_ObservableSet ==
  ObsSetCall =>
    IF op.arg = op.item
      THEN calls = <<>> /\ stack = <<>> /\ item = op.item
      ELSE /\ \A i \in 1..Len(calls) :
                calls[i].newValue = op.arg /\ calls[i].oldValue = op.item
           /\ \A c \in Callbacks :
                Cardinality(CallsTo(c, op.arg, op.item))
                  <= Cardinality(Registrations(c, op.listeners))
           /\ stack = <<>> =>
                /\ item = op.arg
                /\ \A c \in Callbacks :
                     Cardinality(CallsTo(c, op.arg, op.item))
                       = Cardinality(Registrations(c, op.listeners))

\* an effective set has returned after notifying two listeners
C4_Witness ==
  /\ ObsSetCall
  /\ op.arg # op.item
  /\ stack = <<>>
  /\ Len(op.listeners) = 2
  /\ Len(calls) = 2

\* C6: notification order. On an effective Observable.set(y) the stored value
\* is already y when the first (and every) listener runs, and the listeners
\* run in the order in which they were registered.
C6_NotificationOrder ==
  ObsSetCall =>
    /\ \A i \in 1..Len(calls) :
         /\ calls[i].seen = op.arg
         /\ i <= Len(op.listeners)
         /\ calls[i].who = op.listeners[i]
    /\ stack # <<>> => item = stack[Len(stack)].newItem

\* two different callbacks have been notified by one effective set
C6_Witness ==
  /\ ObsSetCall
  /\ op.arg # op.item
  /\ Len(calls) = 2
  /\ calls[1].who # calls[2].who
  /\ stack = <<>>

(***************************************************************************)
(* Properties of ObservableObject                                          *)
(***************************************************************************)
ObjMutators == {"set", "push", "remove", "replace"}

ObjMutation == target = "ObservableObject" /\ objOp.name \in ObjMutators

KeySet(o) == { o[i].k : i \in 1..Len(o) }

\* shallow equality of two snapshots: the same keys holding the same values
ShallowEqual(a, b) ==
  /\ KeySet(a) = KeySet(b)
  /\ \A key \in KeySet(a) : Lookup(a, key) = Lookup(b, key)

\* the calls made so far to the subscriber `who` of `key` with (n, o)
SubscriberCalls(key, who, n, o) ==
  { i \in 1..Len(objCalls) :
      /\ objCalls[i].kind = "subscriber"
      /\ objCalls[i].key = key
      /\ objCalls[i].who = who
      /\ objCalls[i].newValue = n
      /\ objCalls[i].oldValue = o }

CallsOfKey(key) ==
  { i \in 1..Len(objCalls) :
      objCalls[i].kind = "subscriber" /\ objCalls[i].key = key }

\* C5: immediate invocation on registration. Observable.onChange(cb) and
\* ObservableObject.onChange(cb) call cb exactly once with (current, current)
\* and ObservableObject.subscribe(key, cb) calls cb exactly once with
\* (current[key], current[key]); the held value is left as it was.
C5_ImmediateInvocation ==
  /\ (target = "Observable" /\ op.name = "onChange") =>
       /\ Len(calls) = 1
       /\ calls[1].who = op.arg
       /\ calls[1].newValue = op.item
       /\ calls[1].oldValue = op.item
       /\ item = op.item
       /\ listeners = Append(op.listeners, op.arg)
  /\ (target = "ObservableObject" /\ objOp.name = "onChange") =>
       /\ Len(objCalls) = 1
       /\ objCalls[1].kind = "listener"
       /\ objCalls[1].who = objListeners[Len(objListeners)]
       /\ objCalls[1].newObject = objOp.object
       /\ objCalls[1].oldObject = objOp.object
       /\ object = objOp.object
  /\ (target = "ObservableObject" /\ objOp.name = "subscribe") =>
       /\ Len(objCalls) = 1
       /\ objCalls[1].kind = "subscriber"
       /\ objCalls[1].key = objOp.key
       /\ objCalls[1].who = subscribers[objOp.key][Len(subscribers[objOp.key])]
       /\ objCalls[1].newValue = Lookup(objOp.object, objOp.key)
       /\ objCalls[1].oldValue = Lookup(objOp.object, objOp.key)
       /\ object = objOp.object

\* a subscriber has just been registered for a key that holds a value
C5_Witness ==
  /\ target = "ObservableObject"
  /\ objOp.name = "subscribe"
  /\ Lookup(object, objOp.key) # Undefined
  /\ Len(objCalls) = 1

\* C7: ObservableObject notifies only on difference. During set, push, remove
\* and replace a whole-object listener is called only if the new snapshot
\* differs from the old one under shallow comparison of keys and values, and
\* then with (newSnapshot, oldSnapshot).
C7_NotifyOnlyOnDifference ==
  ObjMutation =>
    \A i \in 1..Len(objCalls) :
      objCalls[i].kind = "listener" =>
        /\ ~ShallowEqual(object, objOp.object)
        /\ objCalls[i].newObject = object
        /\ objCalls[i].oldObject = objOp.object

\* C8: per-key subscribers fire only for changed keys. During set, push,
\* remove and replace a subscriber of key k is called only if old[k] # new[k],
\* and then with (new[k], old[k]).
C8_SubscribersOnlyForChangedKeys ==
  ObjMutation =>
    \A i \in 1..Len(objCalls) :
      objCalls[i].kind = "subscriber" =>
        LET key == objCalls[i].key IN
          /\ Lookup(objOp.object, key) # Lookup(object, key)
          /\ objCalls[i].newValue = Lookup(object, key)
          /\ objCalls[i].oldValue = Lookup(objOp.object, key)

\* a mutation called the subscriber of the key it changed and has returned
\* without calling the subscriber registered for a key it left alone
C8_Witness ==
  /\ ObjMutation
  /\ objStack = <<>>
  /\ \E k1, k2 \in Keys :
       /\ k1 # k2
       /\ HasKey(object, k2)
       /\ subscribers[k1] # <<>>
       /\ subscribers[k2] # <<>>
       /\ CallsOfKey(k1) # {}
       /\ CallsOfKey(k2) = {}

\* the keys of the previous snapshot that `whole` does not mention
StaleKeys == KeySet(objOp.object) \ KeySet(objOp.arg)

\* C9: ObservableObject.replace clears stale keys. After replace(whole) every
\* key of the previous snapshot that is not a key of whole is present with
\* value undefined, every key of whole has whole's value, and each subscriber
\* of a cleared key whose old value was v # undefined is called with
\* (undefined, v).
C9_ReplaceClearsStaleKeys ==
  (target = "ObservableObject" /\ objOp.name = "replace" /\ objStack = <<>>) =>
    /\ \A key \in StaleKeys :
         /\ HasKey(object, key)
         /\ Lookup(object, key) = Undefined
         /\ Lookup(objOp.object, key) # Undefined =>
              \A s \in 1..Len(subscribers[key]) :
                SubscriberCalls(key, subscribers[key][s], Undefined,
                                Lookup(objOp.object, key)) # {}
    /\ \A key \in KeySet(objOp.arg) :
         Lookup(object, key) = Lookup(objOp.arg, key)

RemovedValue == Lookup(objOp.object, objOp.key)

\* C10: ObservableObject.remove(key). After remove(k) on a snapshot where k
\* holds v # undefined the new snapshot still has key k, mapped to undefined,
\* every other key keeps its value, get() returns that snapshot, and each
\* subscriber of k was called exactly once, with (undefined, v).
C10_Remove ==
  (/\ target = "ObservableObject"
   /\ objOp.name = "remove"
   /\ RemovedValue # Undefined
   /\ objStack = <<>>) =>
    /\ HasKey(object, objOp.key)
    /\ Lookup(object, objOp.key) = Undefined
    /\ KeySet(object) = KeySet(objOp.object)
    /\ \A key \in Keys \ {objOp.key} :
         Lookup(object, key) = Lookup(objOp.object, key)
    /\ Cardinality(CallsOfKey(objOp.key)) = Len(subscribers[objOp.key])
    /\ \A s \in 1..Len(subscribers[objOp.key]) :
         Cardinality(SubscriberCalls(objOp.key, subscribers[objOp.key][s],
                                     Undefined, RemovedValue)) = 1

\* remove of a key that held a value has returned; the key has a subscriber
\* and the snapshot holds another key with a value
C10_Witness ==
  /\ target = "ObservableObject"
  /\ objOp.name = "remove"
  /\ RemovedValue # Undefined
  /\ objStack = <<>>
  /\ subscribers[objOp.key] # <<>>
  /\ \E key \in Keys \ {objOp.key} : Lookup(object, key) # Undefined

(***************************************************************************)
(* Properties of diff                                                      *)
(***************************************************************************)
\* the structure of a live node: its kind, tag, attributes and ordered
\* children, without the identities of the DOM objects
RECURSIVE Structure(_)
Structure(node) ==
  IF node.nodeType = "text" THEN [nodeType |-> "text", data |-> node.data]
  ELSE [nodeType |-> "element", tagName |-> node.tagName,
        attributes |-> node.attributes,
        childNodes |-> [i \in 1..Len(node.childNodes) |->
                          Structure(node.childNodes[i])]]

LiveChildren(dom) == dom.childNodes

\* C1: reconciliation. The live child at slot 0 of $root being render(old),
\* after diff($root, new, old) has returned the live child at slot 0 is
\* structurally equal to render(new).
C1_Reconciliation ==
  (target = "diff" /\ run.done) =>
    /\ run.error = ""
    /\ Len(LiveChildren(run.dom)) >= 1
    /\ Structure(LiveChildren(run.dom)[1]) = Structure(render(newNode, 1).node)

\* C2: idempotence. With the live child at slot 0 equal to render(T),
\* diff($root, T, T) makes no appendChild, replaceChild or removeChild call.
C2_Idempotence ==
  (target = "diff" /\ run.done /\ oldNode = newNode) => run.ops = <<>>

IsPrefix(short, long) ==
  Len(short) <= Len(long) /\ SubSeq(long, 1, Len(short)) = short

\* new is old with k >= 1 further children and an unchanged root
Grows ==
  /\ ~changed(oldNode, newNode)
  /\ IsPrefix(oldNode.children, newNode.children)
  /\ Len(newNode.children) > Len(oldNode.children)

\* C3: append-only growth. When the root is unchanged and new.children is
\* old.children followed by k >= 1 further children, diff makes exactly k
\* appendChild calls on the live element of the root, adding the rendered
\* further children in order, and no replaceChild or removeChild call; the
\* live nodes of the existing children are the DOM objects they were.
C3_AppendOnlyGrowth ==
  (target = "diff" /\ run.done /\ Grows) =>
    LET n == Len(oldNode.children)
        k == Len(newNode.children) - n
        before == LiveChildren(mounted)[1]
        after == LiveChildren(run.dom)[1]
    IN  /\ run.error = ""
        /\ Len(run.ops) = k
        /\ Len(after.childNodes) = n + k
        /\ \A i \in 1..n : after.childNodes[i] = before.childNodes[i]
        /\ \A j \in 1..k :
             /\ run.ops[j].op = "appendChild"
             /\ run.ops[j].parent = before.id
             /\ run.ops[j].child = after.childNodes[n + j].id
             /\ after.childNodes[n + j].id >= Mount(oldNode).next
             /\ Structure(after.childNodes[n + j])
                  = Structure(render(newNode.children[n + j], 1).node)

(***************************************************************************)
(* Properties of ObservableList                                            *)
(***************************************************************************)
ListDone(name) ==
  target = "ObservableList" /\ listOp.name = name /\ listStack = <<>>

Occurs(l, x) == \E i \in 1..Len(l) : l[i] = x

\* how often x occurs in l
Occurrences(l, x) == Cardinality({ i \in 1..Len(l) : l[i] = x })

\* the listener calls `made` are exactly: each listener of `registered`, once,
\* in registration order, with the arguments args
OnceEach(made, registered, args) ==
  /\ Len(made) = Len(registered)
  /\ \A i \in 1..Len(made) : made[i].who = registered[i] /\ made[i].args = args

\* remove(item) has returned and the call before it was add(item)
AddThenRemove ==
  /\ ListDone("remove")
  /\ listPrev.name = "add"
  /\ listPrev.args = listOp.args

\* C11 (as stated): for every backing sequence L, also one that already
\* contains item, after add(item) then remove(item) the backing sequence is
\* element-for-element equal to L, count() has its pre-add value, and every
\* onAdd and every onRemove listener was invoked exactly once with item.
C11_AddRemoveRoundTrip ==
  AddThenRemove =>
    /\ list = listPrev.list
    /\ Len(list) = Len(listPrev.list)
    /\ OnceEach(listPrev.calls, addListeners, listOp.args)
    /\ OnceEach(listCalls, removeListeners, listOp.args)

\* C11 (amended): after add(item) then remove(item), count() has its pre-add
\* value and the backing sequence holds the elements of L with the same
\* multiplicities; it equals L element for element when item does not occur
\* in L, and otherwise it is L without its first occurrence of item, followed
\* by item. Every onAdd and every onRemove listener was invoked exactly once
\* with item.
C11_AddRemoveRoundTrip_amended ==
  AddThenRemove =>
    LET L == listPrev.list
        x == listOp.args[1]
    IN  /\ Len(list) = Len(L)
        /\ \A y \in ListItems : Occurrences(list, y) = Occurrences(L, y)
        /\ ~Occurs(L, x) => list = L
        /\ Occurs(L, x) =>
             \E i \in 1..Len(L) :
               /\ L[i] = x
               /\ \A j \in 1..(i - 1) : L[j] # x
               /\ list = SubSeq(L, 1, i - 1) \o SubSeq(L, i + 1, Len(L)) \o <<x>>
        /\ OnceEach(listPrev.calls, addListeners, listOp.args)
        /\ OnceEach(listCalls, removeListeners, listOp.args)

\* add(item), remove(item) on a list that holds item before another element,
\* with a listener in each of the two groups
C11_Witness ==
  /\ AddThenRemove
  /\ Len(listPrev.list) >= 2
  /\ listPrev.list[1] = listOp.args[1]
  /\ listPrev.list[2] # listOp.args[1]
  /\ addListeners # <<>>
  /\ removeListeners # <<>>

\* C12: when item does not occur in the backing sequence, remove(item) leaves
\* the sequence and count() unchanged and still invokes every onRemove
\* listener exactly once with item.
C12_RemoveAbsent ==
  (ListDone("remove") /\ ~Occurs(listOp.list, listOp.args[1])) =>
    /\ list = listOp.list
    /\ Len(list) = Len(listOp.list)
    /\ OnceEach(listCalls, removeListeners, listOp.args)

C12_Witness ==
  /\ ListDone("remove")
  /\ ~Occurs(listOp.list, listOp.args[1])
  /\ listOp.list # <<>>
  /\ Len(removeListeners) = MaxListeners
  /\ Len(listCalls) = MaxListeners

\* the group of listeners an operation notifies and what it calls them with
GroupOf(operation) ==
  CASE operation.name = "add" -> [group |-> "add", registered |-> addListeners,
                             args |-> operation.args]
    [] operation.name = "remove" -> [group |-> "remove", registered |-> removeListeners,
                                args |-> operation.args]
    [] operation.name = "replace" -> [group |-> "replace",
                                 registered |-> replaceListeners,
                                 args |-> <<operation.args[2], operation.args[1]>>]

\* the backing sequence `after` reflects the mutation `operation` of `before`
Reflects(operation, before, after) ==
  CASE operation.name = "add" -> after = Append(before, operation.args[1])
    [] operation.name = "remove" ->
         /\ Occurrences(after, operation.args[1])
              = (IF Occurs(before, operation.args[1])
                   THEN Occurrences(before, operation.args[1]) - 1 ELSE 0)
         /\ \A y \in ListItems \ {operation.args[1]} :
              Occurrences(after, y) = Occurrences(before, y)
    [] operation.name = "replace" ->
         /\ Len(after) = Len(before)
         /\ \A i \in 1..Len(before) :
              after[i] = (IF before[i] = operation.args[1]
                             /\ \A j \in 1..(i - 1) : before[j] # operation.args[1]
                            THEN operation.args[2] ELSE before[i])

\* C13: add notifies only onAdd listeners, remove only onRemove listeners and
\* replace only onReplace listeners, each group in registration order, and
\* every listener runs when the backing sequence already reflects the mutation.
C13_IndependentGroups ==
  (target = "ObservableList" /\ listOp.name \in {"add", "remove", "replace"}) =>
    LET g == GroupOf(listOp) IN
      /\ \A i \in 1..Len(listCalls) :
           /\ listCalls[i].group = g.group
           /\ i <= Len(g.registered)
           /\ listCalls[i].who = g.registered[i]
           /\ listCalls[i].args = g.args
           /\ listCalls[i].seen = list
           /\ Reflects(listOp, listOp.list, listCalls[i].seen)
      /\ listStack = <<>> => Len(listCalls) = Len(g.registered)

\* replace has notified two onReplace listeners while listeners of the other
\* two groups are registered
C13_Witness ==
  /\ ListDone("replace")
  /\ Occurs(listOp.list, listOp.args[1])
  /\ listOp.args[1] # listOp.args[2]
  /\ Len(listCalls) = MaxListeners
  /\ addListeners # <<>>
  /\ removeListeners # <<>>

(***************************************************************************)
(* Properties of changed                                                   *)
(***************************************************************************)
ChangedDone == target = "changed" /\ call.done

IsElement(node) == node.t = "object"

IsPrimitive(node) == node.t \in {"string", "number"}

ChangedReturns(value) == call.result = Returned(value)

\* C14: for any two element VNodes built by the node constructor with
\* different tags, whatever their attributes and children, changed returns
\* true.
C14_TagDifference ==
  (/\ ChangedDone
   /\ IsElement(call.args[1])
   /\ IsElement(call.args[2])
   /\ call.args[1].tagName # call.args[2].tagName)
    => ChangedReturns(TRUE)

\* the two attributes objects have the same keys, with values that are
\* strictly equal or equal as strings
SameAttributes(a, b) ==
  /\ DOMAIN a = DOMAIN b
  /\ \A key \in DOMAIN a : a[key] = b[key] \/ AttrString(a[key]) = AttrString(b[key])

\* C15: for two VNodes that both carry attributes, changed returns true when
\* the numbers of keys differ, or a key present in both has values neither
\* strictly equal nor equal as strings, or a key is present in one mapping
\* and absent from the other; it returns false when both mappings have the
\* same keys with equal (or equal-when-stringified) values and the nodes do
\* not differ otherwise.
C15_AttributeDifference ==
  (ChangedDone /\ IsElement(call.args[1]) /\ IsElement(call.args[2])) =>
    LET a == call.args[1].attributes
        b == call.args[2].attributes
    IN  /\ Cardinality(DOMAIN a) # Cardinality(DOMAIN b) => ChangedReturns(TRUE)
        /\ (\E key \in DOMAIN a \cap DOMAIN b :
              a[key] # b[key] /\ AttrString(a[key]) # AttrString(b[key]))
             => ChangedReturns(TRUE)
        /\ DOMAIN a # DOMAIN b => ChangedReturns(TRUE)
        /\ (SameAttributes(a, b) /\ call.args[1].tagName = call.args[2].tagName)
             => ChangedReturns(FALSE)

HDone == target = "h" /\ call.done

\* the child arguments with the arrays among them replaced by their items
RECURSIVE FlattenOnce(_)
FlattenOnce(nodes) ==
  IF nodes = <<>> THEN <<>>
  ELSE LET first == nodes[1] IN
    (IF first.t = "array" THEN first.items ELSE <<first>>)
      \o FlattenOnce(SubSeq(nodes, 2, Len(nodes)))

Pruned(nodes) == SelectSeq(nodes, LAMBDA x : x # JsNull /\ x # JsUndefined)

\* C17: the children of the VNode h returns are the child arguments,
\* flattened one level, with every null / undefined entry removed.
C17_FlattenAndPrune ==
  HDone => call.result.value.children = Pruned(FlattenOnce(call.args[3]))

\* C18: h(tag, null) and h(tag, undefined) give empty attributes;
\* h(tag, attrs, null), h(tag, attrs, undefined) and h(tag, attrs) give
\* children of length 0.
C18_Defaults ==
  HDone =>
    /\ call.args[2] \in {JsNull, JsUndefined}
         => DOMAIN call.result.value.attributes = {}
    /\ call.args[3] \in {<<>>, <<JsNull>>, <<JsUndefined>>}
         => Len(call.result.value.children) = 0

(***************************************************************************)
(* Properties of render                                                    *)
(***************************************************************************)
RenderDone == target = "render" /\ call.done

\* the event names the live element has a listener for
ListenedTo(live) == { l[1] : l \in live.listeners }

\* the live node has the structure the claim describes for `node`
RECURSIVE HasStructureOf(_, _)
HasStructureOf(live, node) ==
  IF node \in {JsNull, JsUndefined}
    THEN live.nodeType = "text" /\ live.data = ""
  ELSE IF node.t = "string"
    THEN live.nodeType = "text" /\ live.data = node.str
  ELSE IF node.t = "number"
    THEN live.nodeType = "text" /\ live.data = NumToString(node.num)
  ELSE
    /\ live.nodeType = "element"
    /\ live.tagName = node.tagName
    /\ Len(live.childNodes) = Len(node.children)
    /\ \A i \in 1..Len(node.children) :
         HasStructureOf(live.childNodes[i], node.children[i])
    /\ DOMAIN live.attributes \cup ListenedTo(live) \subseteq DOMAIN node.attributes
    /\ \A key \in DOMAIN node.attributes :
         LET v == node.attributes[key] IN
           IF v.t = "function"
             THEN /\ <<key, v.id>> \in live.listeners
                  /\ key \notin DOMAIN live.attributes
           ELSE IF v \in {JsNull, JsUndefined}
             THEN key \notin DOMAIN live.attributes \cup ListenedTo(live)
           ELSE /\ key \in DOMAIN live.attributes
                /\ live.attributes[key]
                     = (IF v.t = "number" THEN NumToString(v.num) ELSE v.str)
                /\ key \notin ListenedTo(live)

\* C19: render(null / undefined) is an empty text node, render of a string or
\* number a text node with that content, render of an element VNode a live
\* element of that tag with one live child per entry of node.children, in
\* order; callable attributes become event listeners under their key,
\* null / undefined attributes create no attribute, all others are set to
\* the stringified value.
C19_RenderStructure ==
  RenderDone => HasStructureOf(call.result.value, call.args[1])

\* an element with a listener, a skipped attribute and a null child rendered
C19_Witness ==
  /\ RenderDone
  /\ call.args[1].t = "object"
  /\ "click" \in DOMAIN call.args[1].attributes
  /\ call.args[1].attributes["click"].t = "function"
  /\ "id" \in DOMAIN call.args[1].attributes
  /\ call.args[1].attributes["id"] = JsNull
  /\ Len(call.args[1].children) = MaxChildren
  /\ call.args[1].children[1] = JsNull
  /\ call.args[1].children[2].t = "object"

\* C20: for every VNode tree T without event-listener attributes,
\* toVNode(render(T)) is structurally equal to T: same tag, same attributes,
\* same ordered children (text children included), recursively.
C20_RoundTrip ==
  (target = "toVNode" /\ call.done) => call.result.value = call.args[1]

\* C30: for two childless element VNodes a and b, if changed(a, b) is false
\* then render(a) and render(b) have the same tag and the same attribute
\* name / string-value pairs.
C30_ChangedSoundForRender ==
  (/\ ChangedDone
   /\ IsElement(call.args[1])
   /\ IsElement(call.args[2])
   /\ call.args[1].children = <<>>
   /\ call.args[2].children = <<>>
   /\ ChangedReturns(FALSE))
    => LET a == render(call.args[1], 1).node
           b == render(call.args[2], 1).node
       IN  a.tagName = b.tagName /\ a.attributes = b.attributes

(***************************************************************************)
(* Properties of one call of diff                                          *)
(***************************************************************************)
DiffAtDone == target = "diffAt" /\ call.done

DiffNew == call.args[1]

DiffOld == call.args[2]

DiffIndex == call.args[3]

\* the live parent before the call and the run of diff on it
Before == ParentOf(call.args[2], call.args[3], call.args[4])

After == call.result.value

OpsNamed(name) == SelectSeq(After.ops, LAMBDA o : o.op = name)

\* C24: when oldNode is null / undefined, diff adds render(newNode) as the
\* last child of parent, for every index (also one smaller than the number
\* of children), and changes nothing else.
C24_AbsentOldAppends ==
  (DiffAtDone /\ DiffOld \in {JsNull, JsUndefined}) =>
    /\ After.error = ""
    /\ Len(After.ops) = 1
    /\ After.ops[1].op = "appendChild"
    /\ After.ops[1].parent = Before.dom.id
    /\ Len(After.dom.childNodes) = Len(Before.dom.childNodes) + 1
    /\ SubSeq(After.dom.childNodes, 1, Len(Before.dom.childNodes))
         = Before.dom.childNodes
    /\ Structure(After.dom.childNodes[Len(After.dom.childNodes)])
         = Structure(render(DiffNew, 1).node)

\* diff with an absent old node and index 0 on a parent that has a child
C24_Witness ==
  /\ DiffAtDone
  /\ DiffOld = JsUndefined
  /\ DiffIndex = 0
  /\ Len(Before.dom.childNodes) = 1
  /\ DiffNew.t = "object"
  /\ Len(After.dom.childNodes) = 2

BothPresentAndChanged ==
  /\ DiffAtDone
  /\ DiffOld \notin {JsNull, JsUndefined}
  /\ DiffNew \notin {JsNull, JsUndefined}
  /\ changed(DiffOld, DiffNew)

\* C25: when oldNode and newNode are present and changed(oldNode, newNode),
\* diff makes exactly one replaceChild of the live child at index with
\* render(newNode), makes no call on the children, and leaves every other
\* child of parent as it was.
C25_ChangedReplacesSubtree ==
  BothPresentAndChanged =>
    /\ After.error = ""
    /\ Len(After.ops) = 1
    /\ After.ops[1].op = "replaceChild"
    /\ After.ops[1].parent = Before.dom.id
    /\ After.ops[1].old = Before.dom.childNodes[DiffIndex + 1].id
    /\ Len(After.dom.childNodes) = Len(Before.dom.childNodes)
    /\ \A i \in 1..Len(Before.dom.childNodes) :
         IF i = DiffIndex + 1
           THEN Structure(After.dom.childNodes[i])
                  = Structure(render(DiffNew, 1).node)
           ELSE After.dom.childNodes[i] = Before.dom.childNodes[i]

\* an element with children replaced at slot 1, between two siblings
C25_Witness ==
  /\ BothPresentAndChanged
  /\ DiffIndex = 1
  /\ Len(Before.dom.childNodes) = 3
  /\ DiffOld.children # <<>>
  /\ DiffNew.t = "object"
  /\ DiffNew.children # DiffOld.children

IsText(node) == node.t = "string"

Distinct(nodes) ==
  \A i, j \in 1..Len(nodes) : i # j => nodes[i] # nodes[j]

\* new.children is old.children with one element inserted at position k
\* (counted from 0)
InsertedAt(k) ==
  /\ Len(DiffNew.children) = Len(DiffOld.children) + 1
  /\ k <= Len(DiffOld.children)
  /\ SubSeq(DiffNew.children, 1, k) = SubSeq(DiffOld.children, 1, k)
  /\ SubSeq(DiffNew.children, k + 2, Len(DiffNew.children))
       = SubSeq(DiffOld.children, k + 1, Len(DiffOld.children))

\* an unchanged element whose children are distinct texts, before and after
TextsInserted(k) ==
  /\ DiffAtDone
  /\ DiffOld \notin {JsNull, JsUndefined}
  /\ DiffNew \notin {JsNull, JsUndefined}
  /\ DiffNew.t = "object"
  /\ ~changed(DiffOld, DiffNew)
  /\ \A i \in 1..Len(DiffNew.children) : IsText(DiffNew.children[i])
  /\ \A i \in 1..Len(DiffOld.children) : IsText(DiffOld.children[i])
  /\ Distinct(DiffNew.children)
  /\ InsertedAt(k)

\* C26: for an unchanged element whose old children are n distinct texts and
\* whose new children are the same list with one further distinct text
\* inserted at position k, diff makes exactly n - k replaceChild calls, at
\* positions k..n-1 in order, then exactly one appendChild, and no
\* removeChild.
C26_PositionalCascade ==
  \A k \in 0..MaxChildren :
    TextsInserted(k) =>
      LET n == Len(DiffOld.children)
          element == Before.dom.childNodes[DiffIndex + 1]
          live == After.dom.childNodes[DiffIndex + 1]
      IN  /\ After.error = ""
          /\ Len(After.ops) = n - k + 1
          /\ \A j \in 1..(n - k) :
               /\ After.ops[j].op = "replaceChild"
               /\ After.ops[j].parent = element.id
               /\ After.ops[j].old = element.childNodes[k + j].id
          /\ After.ops[n - k + 1].op = "appendChild"
          /\ After.ops[n - k + 1].parent = element.id
          /\ OpsNamed("removeChild") = <<>>
          /\ \A i \in 1..k : live.childNodes[i] = element.childNodes[i]
          /\ Structure(live) = Structure(render(DiffNew, 1).node)

\* a text inserted in front of MaxChildren others
C26_Witness ==
  /\ TextsInserted(0)
  /\ Len(DiffOld.children) = MaxChildren
  /\ Len(OpsNamed("replaceChild")) = MaxChildren

\* C27: when the root is unchanged and new.children is a strict prefix of
\* old.children, after diff the live element has exactly len(new.children)
\* child nodes.
C27_ShrinkingChildren ==
  (/\ DiffAtDone
   /\ DiffOld \notin {JsNull, JsUndefined}
   /\ DiffNew \notin {JsNull, JsUndefined}
   /\ DiffNew.t = "object"
   /\ ~changed(DiffOld, DiffNew)
   /\ IsPrefix(DiffNew.children, DiffOld.children)
   /\ Len(DiffNew.children) < Len(DiffOld.children))
    => /\ After.error = ""
       /\ Len(After.dom.childNodes[DiffIndex + 1].childNodes)
            = Len(DiffNew.children)

\* C29: whenever the live child at slot index is render(old), old built by
\* the node constructor (null children allowed), diff never removes or
\* replaces a child at a position that does not exist and never descends
\* into a live parent that does not exist, whatever element VNode new is.
C29_StaysWithinBounds ==
  (/\ DiffAtDone
   /\ DiffOld \notin {JsNull, JsUndefined}
   /\ DiffNew \notin {JsNull, JsUndefined}
   /\ DiffNew.t = "object")
    => After.error = ""


(***************************************************************************)
(* Re-entrant notification of an Observable                                *)
(***************************************************************************)
\* the invocations during which a listener, being notified of a change,
\* called set
Triggers ==
  { p \in 1..Len(calls) : calls[p].kind = "set" /\ calls[p].sets # NoSet }

\* the first invocation after p made by a forEach at depth `floor` or
\* shallower, or the end of the log
BlockEnd(p, floor) ==
  CHOOSE q \in (p + 1)..(Len(calls) + 1) :
    /\ q = Len(calls) + 1 \/ calls[q].depth <= floor
    /\ \A r \in (p + 1)..(q - 1) : calls[r].depth > floor

\* the invocations made by the forEach of the set called during invocation p
Nested(p) ==
  { q \in (p + 1)..(BlockEnd(p, calls[p].depth) - 1) :
      calls[q].depth = calls[p].depth + 1 }

\* the invocations the forEach that made invocation p makes after it
Later(p) ==
  { q \in (p + 1)..(BlockEnd(p, calls[p].depth - 1) - 1) :
      calls[q].depth = calls[p].depth }

Rank(q, among) == Cardinality({ r \in among : r <= q })

\* the listeners are notified of (z, old) by the nested set, all of them and
\* in registration order before the outer forEach goes on, and the outer
\* forEach goes on with its own arguments
NestedNotQueued(p, old) ==
  /\ \A q \in Nested(p) :
       /\ calls[q].pos = Rank(q, Nested(p))
       /\ calls[q].who = listeners[calls[q].pos]
       /\ calls[q].newValue = calls[p].sets
       /\ calls[q].oldValue = old
  /\ \A q \in Later(p) :
       /\ calls[q].pos = calls[p].pos + Rank(q, Later(p))
       /\ calls[q].who = listeners[calls[q].pos]
       /\ calls[q].newValue = calls[p].newValue
       /\ calls[q].oldValue = calls[p].oldValue
  /\ (Later(p) # {} \/ stack = <<>>) =>
       Cardinality(Nested(p)) = Len(listeners)
  /\ stack = <<>> =>
       Cardinality(Later(p)) = Len(listeners) - calls[p].pos

\* C23 (as stated): if listener L_i calls set(z) while it is notified of a
\* change to y and z differs from y, then all listeners L_1..L_n are notified
\* of (z, y) in registration order before L_(i+1) is notified of the outer
\* change, and the outer notification still hands its original arguments to
\* L_(i+1)..L_n.
C23_NestedNotQueued ==
  \A p \in Triggers :
    calls[p].sets # calls[p].newValue => NestedNotQueued(p, calls[p].newValue)

\* C23 (amended): if listener L_i calls set(z) while it is notified of a
\* change and z differs from the value c the Observable holds at that moment,
\* then all listeners L_1..L_n are notified of (z, c) in registration order
\* before L_(i+1) is notified of the outer change, and the outer notification
\* still hands its original arguments to L_(i+1)..L_n.
C23_NestedNotQueued_amended ==
  \A p \in Triggers :
    calls[p].sets # calls[p].seen => NestedNotQueued(p, calls[p].seen)

\* a finished set during which the first of two listeners called set
C23_Witness ==
  /\ stack = <<>>
  /\ \E p \in Triggers :
       /\ calls[p].sets # calls[p].seen
       /\ calls[p].pos < Len(listeners)
       /\ Cardinality(Nested(p)) = Len(listeners)
       /\ Later(p) # {}


(***************************************************************************)
(* mount                                                                   *)
(***************************************************************************)
\* the last call made on the mount was setState(update.newState)
SetStateDone(useDiffing) ==
  target = "mount" /\ update.count >= 1 /\ useDiffing \in update.made

\* the live node is a fresh rendering of the VNode
IsRenderOf(live, node) == Renumbered(live, 1).node = render(node, 1).node

\* C21: mount renders view(initialState) as the first child of $root; every
\* setState(partial) makes the state the shallow merge of the previous state
\* and partial, invokes the view once with it, updates the live tree by diff
\* against the retained tree (useDiffing) or by replacing the first child of
\* $root with a fresh rendering, and leaves the tree the view returned as the
\* retained baseline.
C21_MountUpdateCycle ==
  \A useDiffing \in BOOLEAN :
    LET closure == instances[useDiffing]
        before == closure.before
        d == Live(before.root)
    IN  /\ (target = "mount" /\ update.count = 0) =>
             /\ closure.viewed = <<closure.state>>
             /\ closure.vDom = view(closure.state)
             /\ closure.root.childNodes # <<>>
             /\ IsRenderOf(closure.root.childNodes[1], closure.vDom)
        /\ SetStateDone(useDiffing) =>
             /\ closure.state = Merge(before.state, update.newState)
             /\ closure.viewed = <<closure.state>>
             /\ IF useDiffing
                  THEN LET after == diff(d, NodeRef(<<>>), view(closure.state),
                                         before.vDom, 0)
                       IN  closure.root = after.dom /\ closure.ops = after.ops
                  ELSE /\ Len(closure.ops) = 1
                       /\ closure.ops[1].op = "replaceChild"
                       /\ closure.ops[1].old = before.root.childNodes[1].id
                       /\ closure.ops[1].child >= d.next
                       /\ IsRenderOf(closure.root.childNodes[1],
                                     view(closure.state))
                       /\ Tail(closure.root.childNodes)
                            = Tail(before.root.childNodes)
             /\ closure.vDom = view(closure.state)

\* C28: after every update made on both, the mount that diffs and the mount
\* that replaces hold structurally equal live trees under their roots.
C28_ModesEquivalent ==
  (target = "mount" /\ update.made = BOOLEAN) =>
    Renumbered(instances[TRUE].root, 0).node
      = Renumbered(instances[FALSE].root, 0).node


(***************************************************************************)
(* Controller                                                              *)
(***************************************************************************)
\* a call of state.set / push / remove / replace that notified is over
NotifyingCallOver ==
  /\ target = "Controller"
  /\ objStack = <<>>
  /\ objOp.name \in ObjMutators
  /\ objOp.notifies

\* C22: when a call of state.set / push / remove / replace that produces a
\* notification is over, every registered listener has been run with the new
\* object, and the view has been recomputed from the new model and the
\* repaint of the live tree completed: nothing is left for later.
C22_SynchronousCompletion ==
  NotifyingCallOver =>
    /\ \A l \in 1..Len(objListeners) :
         \E i \in 1..Len(objCalls) :
           /\ objCalls[i].kind = "listener"
           /\ objCalls[i].who = objListeners[l]
           /\ objCalls[i].newObject = object
    /\ controller.refreshes = <<[model |-> model(object), completed |-> TRUE]>>
    /\ controller.vDom = controllerView(model(object))


(***************************************************************************)
(* ObservableObject: completeness and order of the notification, key sets  *)
(***************************************************************************)
\* the calls made so far to the subscriber `who` of `key`
CallsOfSubscriber(key, who) ==
  { i \in CallsOfKey(key) : objCalls[i].who = who }

\* C32: per-key notification is complete. When set, push, remove or replace
\* is over, for every key k with a subscriber and old[k] # new[k] (a missing
\* key reading as undefined) each subscriber of k has been called exactly
\* once, with (new[k], old[k]).
C32_PerKeyComplete ==
  (ObjMutation /\ objStack = <<>>) =>
    \A key \in Keys :
      Lookup(objOp.object, key) # Lookup(object, key) =>
        \A n \in 1..Len(subscribers[key]) :
          /\ Cardinality(CallsOfSubscriber(key, subscribers[key][n])) = 1
          /\ SubscriberCalls(key, subscribers[key][n], Lookup(object, key),
                             Lookup(objOp.object, key)) # {}

\* C33: notification order of ObservableObject. Within one set, push, remove
\* or replace every callback sees get() return the new snapshot, every
\* subscriber call comes before every whole-object listener call, and the
\* whole-object listeners are called in registration order.
C33_ObjectNotificationOrder ==
  ObjMutation =>
    LET listenerCalls == SelectSeq(objCalls, LAMBDA c : c.kind = "listener") IN
      /\ \A i \in 1..Len(objCalls) :
           /\ objCalls[i].seen = objCalls[i].newObject
           /\ objCalls[i].seen = object
      /\ \A i, j \in 1..Len(objCalls) :
           (objCalls[i].kind = "listener" /\ objCalls[j].kind = "subscriber")
             => j < i
      /\ Len(listenerCalls) <= Len(objListeners)
      /\ \A i \in 1..Len(listenerCalls) : listenerCalls[i].who = objListeners[i]
      /\ (objStack = <<>> /\ listenerCalls # <<>>) =>
           Len(listenerCalls) = Len(objListeners)

\* a mutation has called a subscriber and then two listeners, and is over
C33_Witness ==
  /\ ObjMutation
  /\ objStack = <<>>
  /\ Len(objListeners) = 2
  /\ Len(objCalls) >= 3
  /\ objCalls[1].kind = "subscriber"
  /\ objCalls[Len(objCalls)].kind = "listener"
  /\ objCalls[Len(objCalls) - 1].kind = "listener"

\* C39: keys are never dropped. In every variant the key set of the snapshot
\* after set, push, remove or replace contains the key set before the call.
C39_KeysNeverDropped ==
  ObjMutation => KeySet(objOp.object) \subseteq KeySet(object)


(***************************************************************************)
(* ObservableList.replace                                                  *)
(***************************************************************************)
\* C37: replace(item, newItem) overwrites the first position at which item
\* occurs with newItem and leaves the length and every other position as they
\* were; when item does not occur the sequence is unchanged; in both cases
\* every onReplace listener is invoked exactly once.
C37_ReplaceEffect ==
  ListDone("replace") =>
    LET before == listOp.list
        x == listOp.args[1]
        newItem == listOp.args[2]
        first == { n \in 1..Len(before) :
                     before[n] = x /\ \A m \in 1..(n - 1) : before[m] # x }
    IN  /\ Len(list) = Len(before)
        /\ \A n \in 1..Len(before) :
             list[n] = IF n \in first THEN newItem ELSE before[n]
        /\ ~Occurs(before, x) => list = before
        /\ Len(listCalls) = Len(replaceListeners)
        /\ \A n \in 1..Len(replaceListeners) :
             Cardinality({ c \in 1..Len(listCalls) :
                             listCalls[c].who = replaceListeners[n] }) = 1

\* a finished replace of an item that occurs twice, with two listeners
C37_Witness ==
  /\ ListDone("replace")
  /\ listOp.args[1] # listOp.args[2]
  /\ Cardinality({ n \in 1..Len(listOp.list) :
                     listOp.list[n] = listOp.args[1] }) >= 2
  /\ Len(replaceListeners) = MaxListeners
  /\ Len(listCalls) = MaxListeners


(***************************************************************************)
(* Observable: what the listeners were last told                           *)
(***************************************************************************)
\* no notification is in progress
Quiet == target = "Observable" /\ stack = <<>>

\* no callback registered before the l-th listener calls set
NoSetterBefore(l) ==
  \A earlier \in 1..(l - 1) : ~reactions[listeners[earlier]].reacts

\* C34 (as stated): whenever no notification is in progress, the newValue most
\* recently delivered to each registered listener equals get(), also when
\* listeners call set while they are notified.
C34_ListenersConverge ==
  Quiet => \A l \in 1..Len(delivered) : delivered[l] = item

\* C34 (amended): whenever no notification is in progress, the newValue most
\* recently delivered to a registered listener equals get(), provided that no
\* listener registered before it calls set; listeners call set while they
\* are notified.
C34_ListenersConverge_amended ==
  Quiet => \A l \in 1..Len(delivered) : NoSetterBefore(l) => delivered[l] = item

\* the outermost set has returned, a listener called set while it was
\* notified, and a passive listener is registered before it
C34_Witness ==
  /\ Quiet
  /\ op.name = "set"
  /\ Len(listeners) = 2
  /\ Len(delivered) = 2
  /\ ~reactions[listeners[1]].reacts
  /\ \E p \in Triggers : calls[p].pos = 2 /\ Nested(p) # {}
  /\ delivered[2] = item
  /\ delivered[2] # op.arg


(***************************************************************************)
(* Event handlers after diff                                               *)
(***************************************************************************)
\* every element of the VNode has, under each of its keys that hold a
\* function, that function object registered on the live element in its place
RECURSIVE ListensAs(_, _)
ListensAs(live, node) ==
  (TypeOf(node) = "object" /\ ~IsNullish(node)) =>
    /\ live.nodeType = "element"
    /\ \A key \in DOMAIN node.attributes :
         TypeOf(node.attributes[key]) = "function" =>
           \E l \in live.listeners :
             l[1] = key /\ l[2] = node.attributes[key].id
    /\ Len(live.childNodes) >= Len(node.children)
    /\ \A i \in 1..Len(node.children) :
         ListensAs(live.childNodes[i], node.children[i])

\* C31: after diff(parent, new, old) on a live tree equal to render(old), the
\* listener registered under every callable attribute key of every element of
\* new is the function object given in new, also when old holds a different
\* function object with the same source text.
C31_HandlersFollowNewTree ==
  (DiffAtDone /\ DiffNew \in HandlerViews /\ DiffOld \in HandlerViews) =>
    /\ After.error = ""
    /\ After.dom.childNodes # <<>>
    /\ ListensAs(After.dom.childNodes[1], DiffNew)


(***************************************************************************)
(* PuerroElement.setState                                                  *)
(***************************************************************************)
\* C38: setState(obj) sets the state to the shallow merge of the current
\* state and obj, setState(f) with f a function sets it to the shallow merge
\* of the current state and f(current state), and in both cases the call
\* completes normally and triggers exactly one refresh.
C38_SetStateObjectOrFunction ==
  (target = "PuerroElement" /\ puerroElement.op.name = "setState") =>
    /\ puerroElement.state =
         Merge(puerroElement.op.state,
               IF puerroElement.op.given = "function"
                 THEN Apply(puerroElement.op.arg, puerroElement.op.state)
                 ELSE puerroElement.op.arg)
    /\ puerroElement.error = ""
    /\ puerroElement.refreshes = 1


(***************************************************************************)
(* C35: whenever no notification is in progress, the vDom every Controller *)
(* retains equals its view applied to the current merged model             *)
(* { ...store.get(), ...state.get() }: after construction and after any    *)
(* sequence of changes of the states and of the store, those made by       *)
(* subscribers and listeners during a notification included.               *)
(***************************************************************************)
C35_BaselineTracksModel ==
  StoreQuiet =>
    \A c \in 1..Len(mvc.controllers) :
      mvc.controllers[c].vDom = controllerView(Store_model(mvc, c))

\* the Controllers whose refresh was called for the n-th change of a call
RefreshedFor(n) ==
  LET entries == SelectSeq(mvc.log, LAMBDA entry : entry.change = n)
  IN  [i \in 1..Len(entries) |-> entries[i].controller]

(***************************************************************************)
(* C36: a notifying change of the module-level store refreshes every       *)
(* Controller constructed so far, once each and in the order of            *)
(* construction; a notifying change of the state of one Controller         *)
(* refreshes that Controller and no other.                                 *)
(***************************************************************************)
C36_SharedStoreFanOut ==
  (StoreQuiet /\ mvc.op = "change") =>
    \A n \in 1..Len(mvc.changes) :
      mvc.changes[n].notifies =>
        RefreshedFor(n) =
          IF mvc.changes[n].on = StoreId
            THEN [c \in 1..Len(mvc.controllers) |-> c]
            ELSE <<mvc.changes[n].on>>

=============================================================================
